---------------------------- MODULE Spec2Model ----------------------------
(***************************************************************************)
(* Model of the bilingual schedule utilities: the text accessors and the   *)
(* validators of src/utils/bilingual.ts, the build-time validation of      *)
(* src/utils/schedule-validator.ts and the command-line script             *)
(* validate-schedule.js.                                                   *)
(*                                                                         *)
(* Every function of the program is pure, so a behaviour is: an input is   *)
(* drawn (Init), then one function is called on it (one action each).      *)
(* JavaScript values are tagged records; strings are sequences of          *)
(* one-character strings, so that trim(), toLowerCase(), includes() and    *)
(* the time-slot pattern are computed character by character.              *)
(***************************************************************************)
EXTENDS Integers, Sequences, FiniteSets, TLC

VARIABLES
    textObj,        \* the text value handed to an accessor or to validateBilingualText
    currentLang,    \* the language asked for: "en" or "zh"
    fallback,       \* the fallback string handed to an accessor
    scheduleData,   \* the schedule document handed to a validator
    called,         \* the function that was called: "none" before the call
    arg,            \* the further arguments of the call
    result          \* what the call returned

vars == <<textObj, currentLang, fallback, scheduleData, called, arg, result>>

(***************************************************************************)
(* Bounds of the model.                                                    *)
(***************************************************************************)
MaxStrLen == 2          \* longest text string drawn for the accessors
MaxDays == 2            \* longest `days` list
MaxCategories == 2      \* longest `categories` list
MaxSessions == 2        \* most sessions in a document of the session family
MaxSpeakers == 3        \* most speakers, over all sessions of such a document
MaxPad == 1             \* most blanks at one place of a drawn time slot
MaxCalls == 3           \* most calls made one after the other on one document

(***************************************************************************)
(* JavaScript values.                                                      *)
(***************************************************************************)
Undef == [t |-> "undefined"]
Null == [t |-> "null"]
Num == [t |-> "number"]                     \* some non-zero number
Str(s) == [t |-> "string", s |-> s]         \* s: a sequence of characters
Arr(items) == [t |-> "array", items |-> items]  \* items: a sequence of values
Obj(fields) == [t |-> "object", fields |-> fields] \* fields: a record of values
\* An object used as a dictionary: its entries [k |-> key, v |-> value] in
\* insertion order, the order of Object.keys and Object.values.
Map(entries) == [t |-> "map", entries |-> entries]

IsString(x) == x.t = "string"
IsArray(x) == x.t = "array"
IsNullish(x) == x.t \in {"undefined", "null"}
\* typeof x === 'object'
IsObjectType(x) == x.t \in {"null", "array", "object", "map"}

\* The truthiness of a value in a condition.
Truthy(x) ==
    CASE x.t \in {"undefined", "null"} -> FALSE
      [] x.t = "string" -> x.s # <<>>
      [] OTHER -> TRUE

\* a || b
Or(a, b) == IF Truthy(a) THEN a ELSE b

\* 'k' in x, for an object x
HasKey(x, k) == x.t = "object" /\ k \in DOMAIN x.fields

\* x.k: undefined when x has no such property. (Reading a property of null or
\* undefined raises a TypeError: the callers test CanRead first.)
Get(x, k) == IF HasKey(x, k) THEN x.fields[k] ELSE Undef

CanRead(x) == ~IsNullish(x)

(***************************************************************************)
(* Strings.                                                                *)
(***************************************************************************)
IsSpace(c) == c = " "

RECURSIVE TrimStart(_)
TrimStart(s) ==
    IF s # <<>> /\ IsSpace(Head(s)) THEN TrimStart(Tail(s)) ELSE s

RECURSIVE TrimEnd(_)
TrimEnd(s) ==
    IF s # <<>> /\ IsSpace(s[Len(s)]) THEN TrimEnd(SubSeq(s, 1, Len(s) - 1)) ELSE s

\* String.prototype.trim
Trim(s) == TrimEnd(TrimStart(s))

\* x.trim() is truthy, for a string x
TrimTruthy(x) == Trim(x.s) # <<>>

SeqsUpTo(S, n) == UNION {[1..k -> S] : k \in 0..n}

(***************************************************************************)
(* getBilingualText                                                        *)
(***************************************************************************)
getBilingualText_otherLang(textObj_, currentLang_, fallback_) ==
    IF IsString(textObj_) THEN textObj_
    ELSE IF ~Truthy(textObj_) THEN fallback_
    ELSE IF IsObjectType(textObj_) /\ (HasKey(textObj_, "en") \/ HasKey(textObj_, "zh"))
    THEN LET zhText == Or(Get(textObj_, "zh"), Str(<<>>))
             enText == Or(Get(textObj_, "en"), Str(<<>>))
         IN  IF Truthy(zhText) /\ Truthy(enText)
             THEN (IF currentLang_ = "zh" THEN enText ELSE zhText)
             ELSE IF Truthy(zhText) THEN zhText
             ELSE IF Truthy(enText) THEN enText
             ELSE fallback_
    ELSE fallback_

getBilingualText_trimmed(textObj_, currentLang_, fallback_) ==
    IF IsString(textObj_) THEN Or(Str(Trim(textObj_.s)), fallback_)
    ELSE IF ~Truthy(textObj_) THEN fallback_
    ELSE IF IsObjectType(textObj_) /\ (HasKey(textObj_, "en") \/ HasKey(textObj_, "zh"))
    THEN LET zhText == Or(Get(textObj_, "zh"), Str(<<>>))
             enText == Or(Get(textObj_, "en"), Str(<<>>))
         IN  IF Truthy(zhText) /\ Truthy(enText)
             THEN (IF currentLang_ = "zh" THEN zhText ELSE enText)
             ELSE IF Truthy(zhText) THEN zhText
             ELSE IF Truthy(enText) THEN enText
             ELSE fallback_
    ELSE fallback_

getBilingualText(textObj_, currentLang_, fallback_) ==
    IF IsString(textObj_) THEN textObj_
    ELSE IF ~Truthy(textObj_) THEN fallback_
    ELSE IF IsObjectType(textObj_) /\ (HasKey(textObj_, "en") \/ HasKey(textObj_, "zh"))
    THEN LET zhText == Or(Get(textObj_, "zh"), Str(<<>>))
             enText == Or(Get(textObj_, "en"), Str(<<>>))
         IN  IF Truthy(zhText) /\ Truthy(enText)
             THEN (IF currentLang_ = "zh" THEN zhText ELSE enText)
             ELSE IF Truthy(zhText) THEN zhText
             ELSE IF Truthy(enText) THEN enText
             ELSE fallback_
    ELSE fallback_

(***************************************************************************)
(* Validation results.  A message is <<text, field name, value>>: the      *)
(* fixed text of the template and what the template interpolates.  A       *)
(* context is a path, a sequence of segments [n, k, i] standing for        *)
(* n, n.k, n[i] or n.k[i] (k = <<>>: no key; i = -1: no index); the empty  *)
(* path stands for a diagnostic without context.                           *)
(***************************************************************************)
NoContext == <<>>
Seg(n, k, i) == [n |-> n, k |-> k, i |-> i]

ValidationError(field, key, message, severity, context) ==
    [field |-> field, key |-> key, message |-> message,
     severity |-> severity, context |-> context]

\* What a call hands back: a ValidationResult, or the exception it raised
\* (thrown = TRUE, the other fields then mean nothing).
ValidationResult(isValid, errors, warnings) ==
    [thrown |-> FALSE, isValid |-> isValid, errors |-> errors, warnings |-> warnings]

Thrown == [thrown |-> TRUE, isValid |-> FALSE, errors |-> <<>>, warnings |-> <<>>]

\* { isValid: errors.length === 0, errors, warnings }
Collected(errors, warnings) == ValidationResult(errors = <<>>, errors, warnings)

(***************************************************************************)
(* validateBilingualText                                                   *)
(***************************************************************************)
TextError(fieldName, text) ==
    ValidationError(fieldName, <<>>, <<text, fieldName, Undef>>, "error", NoContext)

TextWarning(fieldName, text) ==
    ValidationError(fieldName, <<>>, <<text, fieldName, Undef>>, "warning", NoContext)

\* textObj.en && typeof textObj.en === 'string' && textObj.en.trim()
HasLanguage(textObj_, k) ==
    LET x == Get(textObj_, k) IN Truthy(x) /\ IsString(x) /\ TrimTruthy(x)

validateBilingualText_noTrim(textObj_, fieldName, required) ==
    IF required /\ ~Truthy(textObj_)
    THEN ValidationResult(FALSE, <<TextError(fieldName, "Required field is missing or empty")>>, <<>>)
    ELSE IF ~Truthy(textObj_) THEN ValidationResult(TRUE, <<>>, <<>>)
    ELSE IF IsString(textObj_)
    THEN ValidationResult(TRUE, <<>>,
             <<TextWarning(fieldName, "is a string but should be bilingual object")>>)
    ELSE IF IsObjectType(textObj_)
    THEN LET hasEn == Truthy(Get(textObj_, "en"))
             hasZh == Truthy(Get(textObj_, "zh"))
         IN  IF ~hasEn /\ ~hasZh
             THEN ValidationResult(FALSE,
                      <<TextError(fieldName, "must have at least one non-empty language version")>>, <<>>)
             ELSE ValidationResult(TRUE, <<>>,
                      (IF ~hasEn THEN <<TextWarning(fieldName, "is missing English translation")>> ELSE <<>>)
                      \o (IF ~hasZh THEN <<TextWarning(fieldName, "is missing Chinese translation")>> ELSE <<>>))
    ELSE ValidationResult(TRUE, <<>>, <<>>)

validateBilingualText(textObj_, fieldName, required) ==
    IF required /\ (~Truthy(textObj_) \/ (IsString(textObj_) /\ ~TrimTruthy(textObj_)))
    THEN ValidationResult(FALSE, <<TextError(fieldName, "Required field is missing or empty")>>, <<>>)
    ELSE IF ~Truthy(textObj_) THEN ValidationResult(TRUE, <<>>, <<>>)
    ELSE IF IsString(textObj_)
    THEN (IF TrimTruthy(textObj_)
          THEN ValidationResult(TRUE, <<>>,
                   <<TextWarning(fieldName, "is a string but should be bilingual object")>>)
          ELSE ValidationResult(FALSE, <<TextError(fieldName, "is an empty string")>>, <<>>))
    ELSE IF IsObjectType(textObj_)
    THEN LET hasEn == HasLanguage(textObj_, "en")
             hasZh == HasLanguage(textObj_, "zh")
         IN  IF ~hasEn /\ ~hasZh
             THEN ValidationResult(FALSE,
                      <<TextError(fieldName, "must have at least one non-empty language version")>>, <<>>)
             ELSE ValidationResult(TRUE, <<>>,
                      (IF ~hasEn THEN <<TextWarning(fieldName, "is missing English translation")>> ELSE <<>>)
                      \o (IF ~hasZh THEN <<TextWarning(fieldName, "is missing Chinese translation")>> ELSE <<>>))
    ELSE ValidationResult(TRUE, <<>>, <<>>)



(***************************************************************************)
(* isValidBilingualText                                                    *)
(***************************************************************************)
\* Boolean(textObj.en || textObj.zh): the languages are not trimmed.
isValidBilingualText(textObj_) ==
    IF IsString(textObj_) /\ TrimTruthy(textObj_) THEN TRUE
    ELSE IF IsObjectType(textObj_) /\ Truthy(textObj_)
    THEN Truthy(Or(Get(textObj_, "en"), Get(textObj_, "zh")))
    ELSE FALSE

(***************************************************************************)
(* The entity validators.  Reading a property of null or undefined raises  *)
(* a TypeError, which none of them catches: the call then hands back       *)
(* Thrown.                                                                  *)
(***************************************************************************)
\* errors.push(...b.errors); warnings.push(...b.warnings), after those of a
Join(a, b) ==
    IF a.thrown \/ b.thrown THEN Thrown
    ELSE Collected(a.errors \o b.errors, a.warnings \o b.warnings)

RECURSIVE JoinAll(_)
JoinAll(rs) == IF rs = <<>> THEN Collected(<<>>, <<>>) ELSE Join(Head(rs), JoinAll(Tail(rs)))

OneError(e) == Collected(<<e>>, <<>>)
OneWarning(w) == Collected(<<>>, <<w>>)
Nothing == Collected(<<>>, <<>>)

\* !x || typeof x !== 'string' || !x.trim()
NotNonEmptyString(x) == ~Truthy(x) \/ ~IsString(x) \/ ~TrimTruthy(x)

validateBilingualSpeaker(speaker, context) ==
    IF ~CanRead(speaker) THEN Thrown
    ELSE JoinAll(<<
        IF NotNonEmptyString(Get(speaker, "id"))
        THEN OneError(ValidationError("speaker.id", <<>>,
                 <<"Speaker ID is required and must be a non-empty string", "", Undef>>,
                 "error", context))
        ELSE Nothing,
        IF NotNonEmptyString(Get(speaker, "image"))
        THEN OneWarning(ValidationError("speaker.image", <<>>,
                 <<"Speaker image is missing", "", Undef>>, "warning", context))
        ELSE Nothing,
        IF ~IsArray(Get(speaker, "tags"))
        THEN OneWarning(ValidationError("speaker.tags", <<>>,
                 <<"Speaker tags should be an array", "", Undef>>, "warning", context))
        ELSE Nothing,
        validateBilingualText(Get(speaker, "name"), "speaker.name", TRUE),
        validateBilingualText(Get(speaker, "roleOrg"), "speaker.roleOrg", TRUE) >>)

validateBilingualSession(session, context) ==
    IF ~CanRead(session) THEN Thrown
    ELSE LET speakers == Get(session, "speakers") IN
    JoinAll(<<
        IF NotNonEmptyString(Get(session, "timeSlot"))
        THEN OneError(ValidationError("session.timeSlot", <<>>,
                 <<"Session timeSlot is required and must be a non-empty string", "", Undef>>,
                 "error", context))
        ELSE Nothing,
        validateBilingualText(Get(session, "date"), "session.date", TRUE),
        validateBilingualText(Get(session, "title"), "session.title", TRUE),
        validateBilingualText(Get(session, "content"), "session.content", TRUE),
        IF Truthy(Get(session, "room"))
        THEN validateBilingualText(Get(session, "room"), "session.room", FALSE)
        ELSE Nothing,
        IF ~IsArray(speakers)
        THEN OneError(ValidationError("session.speakers", <<>>,
                 <<"Session speakers must be an array", "", Undef>>, "error", context))
        ELSE JoinAll([index \in 1..Len(speakers.items) |->
                 validateBilingualSpeaker(speakers.items[index],
                     context \o <<Seg("speakers", <<>>, index - 1)>>)]) >>)

validateBilingualCategory(category, context) ==
    IF ~CanRead(category) THEN Thrown
    ELSE JoinAll(<<
        IF NotNonEmptyString(Get(category, "id"))
        THEN OneError(ValidationError("category.id", <<>>,
                 <<"Category ID is required and must be a non-empty string", "", Undef>>,
                 "error", context))
        ELSE Nothing,
        validateBilingualText(Get(category, "name"), "category.name", TRUE),
        validateBilingualText(Get(category, "room"), "category.room", TRUE) >>)

\* The context is accepted and never used: the diagnostics of a day are
\* those of its three texts, which carry none.
validateBilingualDay(day, context) ==
    IF ~CanRead(day) THEN Thrown
    ELSE JoinAll(<<
        validateBilingualText(Get(day, "date"), "day.date", TRUE),
        validateBilingualText(Get(day, "title"), "day.title", TRUE),
        validateBilingualText(Get(day, "url"), "day.url", TRUE) >>)

(***************************************************************************)
(* validateBilingualScheduleData                                           *)
(***************************************************************************)
\* The days block: lines 646-659.
ValidateDays(days) ==
    IF ~IsArray(days)
    THEN OneError(ValidationError("scheduleData.days", <<>>,
             <<"Days must be an array", "", Undef>>, "error", NoContext))
    ELSE JoinAll([index \in 1..Len(days.items) |->
             validateBilingualDay(days.items[index], <<Seg("days", <<>>, index - 1)>>)])

DuplicateCategoryError(id, index) ==
    ValidationError("category.id", <<>>, <<"Duplicate category ID found", "", id>>,
        "error", <<Seg("categories", <<>>, index - 1)>>)

\* The loop of lines 669-688 reporting every category with a truthy id, the
\* first occurrence included (the Set filled before the lookup).
RECURSIVE CategoriesFrom_addFirst(_, _, _)
CategoriesFrom_addFirst(categories, index, categoryIds) ==
    IF index > Len(categories) THEN Nothing
    ELSE LET category == categories[index]
             categoryValidation ==
                 validateBilingualCategory(category, <<Seg("categories", <<>>, index - 1)>>)
             id == Get(category, "id")
         IN  IF categoryValidation.thrown THEN Thrown
             ELSE IF ~Truthy(id)
             THEN Join(categoryValidation, CategoriesFrom_addFirst(categories, index + 1, categoryIds))
             ELSE IF id \in (categoryIds \cup {id})
             THEN Join(Join(categoryValidation, OneError(DuplicateCategoryError(id, index))),
                       CategoriesFrom_addFirst(categories, index + 1, categoryIds \cup {id}))
             ELSE Join(categoryValidation,
                       CategoriesFrom_addFirst(categories, index + 1, categoryIds \cup {id}))

\* The forEach over the categories from position `index` on, categoryIds
\* being the Set filled so far: each category is validated, then its truthy
\* id is looked up in the Set and reported, or added to it.
RECURSIVE CategoriesFrom(_, _, _)
CategoriesFrom(categories, index, categoryIds) ==
    IF index > Len(categories) THEN Nothing
    ELSE LET category == categories[index]
             categoryValidation ==
                 validateBilingualCategory(category, <<Seg("categories", <<>>, index - 1)>>)
             id == Get(category, "id")
         IN  IF categoryValidation.thrown THEN Thrown
             ELSE IF ~Truthy(id)
             THEN Join(categoryValidation, CategoriesFrom(categories, index + 1, categoryIds))
             ELSE IF id \in categoryIds
             THEN Join(Join(categoryValidation, OneError(DuplicateCategoryError(id, index))),
                       CategoriesFrom(categories, index + 1, categoryIds))
             ELSE Join(categoryValidation,
                       CategoriesFrom(categories, index + 1, categoryIds \cup {id}))

\* The categories block: lines 661-689.
ValidateCategories(categories) ==
    IF ~IsArray(categories)
    THEN OneError(ValidationError("scheduleData.categories", <<>>,
             <<"Categories must be an array", "", Undef>>, "error", NoContext))
    ELSE CategoriesFrom(categories.items, 1, {})

\* scheduleData.categories?.map(cat => cat.id) raises when categories is
\* neither nullish nor an array (it has no map method) and when an element
\* is null or undefined.
CategoryIdsThrows(categories) ==
    IF IsNullish(categories) THEN FALSE
    ELSE IF ~IsArray(categories) THEN TRUE
    ELSE \E i \in 1..Len(categories.items) : ~CanRead(categories.items[i])

\* new Set(scheduleData.categories?.map(cat => cat.id) || []), as the list of
\* its members in insertion order.
RECURSIVE DistinctIds(_, _)
DistinctIds(categories, seen) ==
    IF categories = <<>> THEN <<>>
    ELSE LET id == Get(Head(categories), "id")
         IN  IF id \in seen THEN DistinctIds(Tail(categories), seen)
             ELSE <<id>> \o DistinctIds(Tail(categories), seen \cup {id})

CategoryIdList(categories) ==
    IF IsArray(categories) THEN DistinctIds(categories.items, {}) ELSE <<>>

CategoryIdSet(categories) ==
    LET ids == CategoryIdList(categories) IN {ids[i] : i \in 1..Len(ids)}

\* One key of the sessions object: lines 701-726.
ValidateSessionKey(entry, categoryIds) ==
    LET categoryId == entry.k
        sessions == entry.v
    IN  Join(
          IF Str(categoryId) \notin categoryIds
          THEN OneWarning(ValidationError("sessions", <<>>,
                   <<"Session category not found in categories array", "", Str(categoryId)>>,
                   "warning", <<Seg("sessions", categoryId, -1)>>))
          ELSE Nothing,
          IF ~IsArray(sessions)
          THEN OneError(ValidationError("sessions.", categoryId,
                   <<"Sessions for category must be an array", "", Str(categoryId)>>,
                   "error", NoContext))
          ELSE JoinAll([index \in 1..Len(sessions.items) |->
                   validateBilingualSession(sessions.items[index],
                       <<Seg("sessions", categoryId, index - 1)>>)]))

\* Object.keys(x): the keys of a dictionary; a number has none.
Entries(x) == IF x.t = "map" THEN x.entries ELSE <<>>

\* The sessions block: lines 691-727.
ValidateSessions(sessions, categories) ==
    IF ~Truthy(sessions) \/ ~IsObjectType(sessions)
    THEN OneError(ValidationError("scheduleData.sessions", <<>>,
             <<"Sessions must be an object", "", Undef>>, "error", NoContext))
    ELSE IF CategoryIdsThrows(categories) THEN Thrown
    ELSE JoinAll([i \in 1..Len(Entries(sessions)) |->
             ValidateSessionKey(Entries(sessions)[i], CategoryIdSet(categories))])

validateBilingualScheduleData(scheduleData_) ==
    IF ~Truthy(scheduleData_) \/ ~IsObjectType(scheduleData_)
    THEN ValidationResult(FALSE,
             <<ValidationError("scheduleData", <<>>,
                   <<"Schedule data must be a valid object", "", Undef>>, "error", NoContext)>>,
             <<>>)
    ELSE JoinAll(<<
             ValidateDays(Get(scheduleData_, "days")),
             ValidateCategories(Get(scheduleData_, "categories")),
             ValidateSessions(Get(scheduleData_, "sessions"), Get(scheduleData_, "categories")) >>)

(***************************************************************************)
(* isValidTimeSlot                                                         *)
(***************************************************************************)
UpperCase == <<"A", "B", "C", "D", "E", "F", "G", "H", "I", "J", "K", "L", "M",
               "N", "O", "P", "Q", "R", "S", "T", "U", "V", "W", "X", "Y", "Z">>
LowerCase == <<"a", "b", "c", "d", "e", "f", "g", "h", "i", "j", "k", "l", "m",
               "n", "o", "p", "q", "r", "s", "t", "u", "v", "w", "x", "y", "z">>

ToLowerChar(c) ==
    IF \E i \in 1..Len(UpperCase) : UpperCase[i] = c
    THEN LowerCase[CHOOSE i \in 1..Len(UpperCase) : UpperCase[i] = c]
    ELSE c

\* String.prototype.toLowerCase
ToLowerCase(s) == [i \in 1..Len(s) |-> ToLowerChar(s[i])]

\* String.prototype.includes
Includes(s, sub) ==
    \E i \in 1..(Len(s) - Len(sub) + 1) : SubSeq(s, i, i + Len(sub) - 1) = sub

IsDigit(c) == c \in {"0", "1", "2", "3", "4", "5", "6", "7", "8", "9"}

\* The pattern is run as a matcher runs it: each step maps the set of
\* positions the match may have reached to the set after one more element.
\* \d{lo,hi}
MatchDigits(s, from, lo, hi) ==
    {q \in 1..(Len(s) + 1) :
        \E p \in from : /\ q - p \in lo..hi
                        /\ \A i \in p..(q - 1) : IsDigit(s[i])}

\* one literal character
MatchChar(s, from, c) == {p + 1 : p \in {q \in from : q <= Len(s) /\ s[q] = c}}

\* \s*
MatchSpaces(s, from) ==
    {q \in 1..(Len(s) + 1) : \E p \in from : p <= q /\ \A i \in p..(q - 1) : IsSpace(s[i])}

\* /^\d{1,2}:\d{2}\s*-\s*\d{1,2}:\d{2}$/.test(s)
TimeRangePattern(s) ==
    LET p1 == MatchDigits(s, {1}, 1, 2)
        p2 == MatchChar(s, p1, ":")
        p3 == MatchDigits(s, p2, 2, 2)
        p4 == MatchSpaces(s, p3)
        p5 == MatchChar(s, p4, "-")
        p6 == MatchSpaces(s, p5)
        p7 == MatchDigits(s, p6, 1, 2)
        p8 == MatchChar(s, p7, ":")
        p9 == MatchDigits(s, p8, 2, 2)
    IN  (Len(s) + 1) \in p9

Tbd == <<"t", "b", "d">>
AllDay == <<"a", "l", "l", " ", "d", "a", "y">>
\* The two characters of the Chinese word for "all day" (U+5168, U+5929); a
\* module holds ASCII only, so each is written as one character named in pinyin.
QuanTian == <<"quan", "tian">>

isValidTimeSlot_noPlaceholders(timeSlot) ==
    IF ~Truthy(timeSlot) \/ ~IsString(timeSlot) THEN FALSE
    ELSE TimeRangePattern(Trim(timeSlot.s))

isValidTimeSlot(timeSlot) ==
    IF ~Truthy(timeSlot) \/ ~IsString(timeSlot) THEN FALSE
    ELSE LET trimmed == Trim(timeSlot.s)
         IN  IF \/ Includes(ToLowerCase(trimmed), Tbd)
                \/ Includes(ToLowerCase(trimmed), AllDay)
                \/ Includes(ToLowerCase(trimmed), QuanTian)
             THEN TRUE
             ELSE TimeRangePattern(trimmed)

(***************************************************************************)
(* validateBusinessRules.  The whole body runs in one try block: a         *)
(* TypeError ends the pass, keeps the warnings pushed so far and adds one  *)
(* error.                                                                  *)
(***************************************************************************)
BusinessWarning(field, text, value, context) ==
    ValidationError(field, <<>>, <<text, "", value>>, "warning", context)

\* A catch block that reports nothing.
BusinessRulesFailed_silent(warnings) == ValidationResult(TRUE, <<>>, warnings)

BusinessRulesFailed(warnings) ==
    ValidationResult(FALSE,
        <<ValidationError("business_rules", <<>>,
              <<"Business rules validation failed", "", Undef>>, "error",
              <<Seg("business_rules", <<>>, -1)>>)>>,
        warnings)

\* scheduleData.sessions || {}
SessionsOrEmpty(scheduleData_) == Or(Get(scheduleData_, "sessions"), Map(<<>>))

\* The warnings of lines 147-156: the session keys that are no category id.
OrphanedSessionWarnings(scheduleData_, categoryIds) ==
    LET entries == Entries(SessionsOrEmpty(scheduleData_))
        Warn(i) ==
            IF Str(entries[i].k) \notin categoryIds
            THEN <<BusinessWarning("sessions", "Session category not found in categories array",
                       Str(entries[i].k), <<Seg("business_rules", <<>>, -1)>>)>>
            ELSE <<>>
        RECURSIVE From(_)
        From(i) == IF i > Len(entries) THEN <<>> ELSE Warn(i) \o From(i + 1)
    IN  From(1)

\* scheduleData.sessions[categoryId]
SessionsOf(sessions, categoryId) ==
    IF sessions.t = "map" /\ IsString(categoryId)
       /\ \E i \in 1..Len(sessions.entries) : sessions.entries[i].k = categoryId.s
    THEN sessions.entries[CHOOSE i \in 1..Len(sessions.entries) : sessions.entries[i].k = categoryId.s].v
    ELSE Undef

\* x.length === 0
HasLengthZero(x) == (IsArray(x) /\ Len(x.items) = 0) \/ (IsString(x) /\ Len(x.s) = 0)

\* The warnings of lines 159-168: the category ids without sessions.
EmptyCategoryWarnings(scheduleData_, categoryIdList) ==
    LET sessions == Get(scheduleData_, "sessions")
        Warn(i) ==
            LET bucket == SessionsOf(sessions, categoryIdList[i])
            IN  IF ~Truthy(bucket) \/ HasLengthZero(bucket)
                THEN <<BusinessWarning("categories", "Category has no sessions",
                           categoryIdList[i], <<Seg("business_rules", <<>>, -1)>>)>>
                ELSE <<>>
        RECURSIVE From(_)
        From(i) == IF i > Len(categoryIdList) THEN <<>> ELSE Warn(i) \o From(i + 1)
    IN  From(1)

\* The values of the sessions object, Object.values(scheduleData.sessions || {}).
Buckets(scheduleData_) ==
    LET entries == Entries(SessionsOrEmpty(scheduleData_))
    IN  [i \in 1..Len(entries) |-> entries[i].v]

\* session.speakers?.forEach(...) raises when speakers is neither nullish nor
\* an array, and when the callback reads a property of a null speaker.
SpeakersLoopThrows(session) ==
    \/ ~CanRead(session)
    \/ LET speakers == Get(session, "speakers")
       IN  /\ ~IsNullish(speakers)
           /\ \/ ~IsArray(speakers)
              \/ \E i \in 1..Len(speakers.items) : ~CanRead(speakers.items[i])

\* The loop of lines 174-186 raises: a bucket without forEach, a null
\* session, or a speakers loop that raises.
SpeakerScanThrows(scheduleData_) ==
    LET buckets == Buckets(scheduleData_)
    IN  \E b \in 1..Len(buckets) :
            \/ ~IsArray(buckets[b])
            \/ \E i \in 1..Len(buckets[b].items) : SpeakersLoopThrows(buckets[b].items[i])

\* The speakers of a session, in order (none when speakers is nullish).
SpeakersOf(session) ==
    LET speakers == Get(session, "speakers") IN IF IsArray(speakers) THEN speakers.items ELSE <<>>

RECURSIVE Flatten(_)
Flatten(seqs) == IF seqs = <<>> THEN <<>> ELSE Head(seqs) \o Flatten(Tail(seqs))

\* The sessions of the document in the order the loops visit them.
AllSessions(scheduleData_) ==
    LET buckets == Buckets(scheduleData_)
    IN  Flatten([b \in 1..Len(buckets) |-> buckets[b].items])

\* The speakers of the document in the order the loops visit them.
AllSpeakers(scheduleData_) ==
    LET sessions == AllSessions(scheduleData_)
    IN  Flatten([i \in 1..Len(sessions) |-> SpeakersOf(sessions[i])])

\* The scan of lines 171-186 with duplicateSpeakers an array: one entry per
\* repetition.
RECURSIVE DuplicateSpeakers_perOccurrence(_, _, _)
DuplicateSpeakers_perOccurrence(speakers, speakerIds, duplicateSpeakers) ==
    IF speakers = <<>> THEN duplicateSpeakers
    ELSE LET id == Get(Head(speakers), "id")
         IN  IF ~Truthy(id)
             THEN DuplicateSpeakers_perOccurrence(Tail(speakers), speakerIds, duplicateSpeakers)
             ELSE IF id \in speakerIds
             THEN DuplicateSpeakers_perOccurrence(Tail(speakers), speakerIds,
                      Append(duplicateSpeakers, id))
             ELSE DuplicateSpeakers_perOccurrence(Tail(speakers), speakerIds \cup {id},
                      duplicateSpeakers)

\* Lines 171-186: speakerIds and duplicateSpeakers are Sets; the result is
\* duplicateSpeakers in insertion order.
RECURSIVE DuplicateSpeakers(_, _, _)
DuplicateSpeakers(speakers, speakerIds, duplicateSpeakers) ==
    IF speakers = <<>> THEN duplicateSpeakers
    ELSE LET id == Get(Head(speakers), "id")
         IN  IF ~Truthy(id) THEN DuplicateSpeakers(Tail(speakers), speakerIds, duplicateSpeakers)
             ELSE IF id \in speakerIds
             THEN DuplicateSpeakers(Tail(speakers), speakerIds,
                      IF \E i \in 1..Len(duplicateSpeakers) : duplicateSpeakers[i] = id
                      THEN duplicateSpeakers
                      ELSE Append(duplicateSpeakers, id))
             ELSE DuplicateSpeakers(Tail(speakers), speakerIds \cup {id}, duplicateSpeakers)

\* The warnings of lines 188-195.
DuplicateSpeakerWarnings(scheduleData_) ==
    LET duplicateSpeakers == DuplicateSpeakers(AllSpeakers(scheduleData_), {}, <<>>)
    IN  [i \in 1..Len(duplicateSpeakers) |->
            BusinessWarning("speakers", "Speaker ID appears multiple times",
                duplicateSpeakers[i], <<Seg("business_rules", <<>>, -1)>>)]

\* The warnings of lines 198-209, index being the position in the bucket.
TimeSlotWarnings(scheduleData_) ==
    LET buckets == Buckets(scheduleData_)
        Warn(session, index) ==
            IF Truthy(Get(session, "timeSlot")) /\ ~isValidTimeSlot(Get(session, "timeSlot"))
            THEN <<BusinessWarning("session.timeSlot", "Session has unusual time slot format",
                       Get(session, "timeSlot"),
                       <<Seg("business_rules.session", <<>>, index - 1)>>)>>
            ELSE <<>>
    IN  Flatten([b \in 1..Len(buckets) |->
            Flatten([index \in 1..Len(buckets[b].items) |-> Warn(buckets[b].items[index], index)])])

\* '0-placeholder-person.png'
PlaceholderImage == Str(<<"0", "-", "p", "l", "a", "c", "e", "h", "o", "l", "d", "e", "r",
                          "-", "p", "e", "r", "s", "o", "n", ".", "p", "n", "g">>)

\* The warnings of lines 212-225, speakerIndex being the position in the session.
SpeakerImageWarnings(scheduleData_) ==
    LET sessions == AllSessions(scheduleData_)
        Warn(speaker, speakerIndex) ==
            IF ~Truthy(Get(speaker, "image")) \/ Get(speaker, "image") = PlaceholderImage
            THEN <<BusinessWarning("speaker.image", "Speaker is using placeholder image",
                       Get(speaker, "id"),
                       <<Seg("business_rules.speaker", <<>>, speakerIndex - 1)>>)>>
            ELSE <<>>
    IN  Flatten([i \in 1..Len(sessions) |->
            Flatten([speakerIndex \in 1..Len(SpeakersOf(sessions[i])) |->
                Warn(SpeakersOf(sessions[i])[speakerIndex], speakerIndex)])])

validateBusinessRules(scheduleData_) ==
    IF ~CanRead(scheduleData_) \/ CategoryIdsThrows(Get(scheduleData_, "categories"))
    THEN BusinessRulesFailed(<<>>)
    ELSE
    LET categoryIdList == CategoryIdList(Get(scheduleData_, "categories"))
        categoryIds == CategoryIdSet(Get(scheduleData_, "categories"))
        orphaned == OrphanedSessionWarnings(scheduleData_, categoryIds)
    IN  IF categoryIdList # <<>> /\ ~CanRead(Get(scheduleData_, "sessions"))
        THEN BusinessRulesFailed(orphaned)
        ELSE
        LET empty == EmptyCategoryWarnings(scheduleData_, categoryIdList)
        IN  IF SpeakerScanThrows(scheduleData_)
            THEN BusinessRulesFailed(orphaned \o empty)
            ELSE Collected(<<>>,
                     orphaned \o empty
                     \o DuplicateSpeakerWarnings(scheduleData_)
                     \o TimeSlotWarnings(scheduleData_)
                     \o SpeakerImageWarnings(scheduleData_))

(***************************************************************************)
(* validateScheduleData.  The JSON-schema library is optional and outside  *)
(* the program; `ajv` is what it does in this call: "none" (the library is *)
(* not installed), "valid", "invalid" (the schema rejects the document,    *)
(* here with one error) or "failed" (the schema cannot be loaded).         *)
(***************************************************************************)
AjvOutcomes == {"none", "valid", "invalid", "failed"}

SchemaValidation(ajv) ==
    CASE ajv = "invalid" ->
            OneError(ValidationError("instancePath", <<>>, <<"JSON Schema", "", Undef>>,
                "error", <<Seg("schema_validation", <<>>, -1)>>))
      [] ajv = "failed" ->
            OneWarning(ValidationError("schema_validation", <<>>,
                <<"Could not load or apply JSON schema", "", Undef>>, "warning", NoContext))
      [] OTHER -> Nothing

validateScheduleData_customOnly(scheduleData_, ajv) ==
    LET customValidation == validateBilingualScheduleData(scheduleData_)
    IN  IF customValidation.thrown
        THEN Collected(
                 <<ValidationError("validation_process", <<>>,
                       <<"Validation process failed", "", Undef>>, "error", NoContext)>>,
                 <<>>)
        ELSE LET all == Join(Join(customValidation, SchemaValidation(ajv)),
                             validateBusinessRules(scheduleData_))
             IN  ValidationResult(customValidation.isValid, all.errors, all.warnings)

validateScheduleData(scheduleData_, ajv) ==
    LET customValidation == validateBilingualScheduleData(scheduleData_)
    IN  IF customValidation.thrown
        THEN Collected(
                 <<ValidationError("validation_process", <<>>,
                       <<"Validation process failed", "", Undef>>, "error", NoContext)>>,
                 <<>>)
        ELSE Join(Join(customValidation, SchemaValidation(ajv)),
                  validateBusinessRules(scheduleData_))

(***************************************************************************)
(* generateValidationReport.  The report is the list of its lines before   *)
(* the join: a line is its fixed text, the number it interpolates (-1 for  *)
(* none) and, for a numbered line, the diagnostic it prints.  The call is  *)
(* made with the default context '', so the header reads 'Unknown'.        *)
(***************************************************************************)
NoDiagnostic == [field |-> "", message |-> <<"", "", Undef>>, context |-> NoContext]

Line(text, n, of) == [text |-> text, n |-> n, of |-> of]

Blank == Line("", -1, NoDiagnostic)

\* x?.length || 0
LengthOrZero(x) ==
    IF IsArray(x) THEN Len(x.items) ELSE IF IsString(x) THEN Len(x.s) ELSE 0

RECURSIVE Sum(_)
Sum(ns) == IF ns = <<>> THEN 0 ELSE Head(ns) + Sum(Tail(ns))

\* generateDataStatistics raises on a null document (scheduleData.days), on
\* a bucket without length or forEach, on a null session and in a speakers
\* loop that raises: the loops are those of the speaker scan.
StatisticsThrow(scheduleData_) ==
    ~CanRead(scheduleData_) \/ SpeakerScanThrows(scheduleData_)

generateDataStatistics(scheduleData_) ==
    LET sessions == AllSessions(scheduleData_)
        speakers == AllSpeakers(scheduleData_)
    IN  [daysCount |-> LengthOrZero(Get(scheduleData_, "days")),
         categoriesCount |-> LengthOrZero(Get(scheduleData_, "categories")),
         totalSessions |-> Len(sessions),
         totalSpeakers |-> Sum([i \in 1..Len(sessions) |->
                                   LengthOrZero(Get(sessions[i], "speakers"))]),
         uniqueSpeakers |-> Cardinality({Get(speakers[i], "id") : i \in
                                {j \in 1..Len(speakers) : Truthy(Get(speakers[j], "id"))}})]

\* `${index + 1}. [${error.field}] ${error.message}${context}`
Numbered(diagnostics) ==
    [index \in 1..Len(diagnostics) |->
        Line("item", index,
             [field |-> diagnostics[index].field,
              message |-> diagnostics[index].message,
              context |-> diagnostics[index].context])]

\* A report that prints the errors always.
Section_always(title, diagnostics) ==
    <<Line(title, -1, NoDiagnostic)>> \o Numbered(diagnostics) \o <<Blank>>

\* The section of the errors, or of the warnings: lines 307-325.
Section(title, diagnostics) ==
    IF Len(diagnostics) > 0
    THEN <<Line(title, -1, NoDiagnostic)>> \o Numbered(diagnostics) \o <<Blank>>
    ELSE <<>>

\* What the call hands back: the lines of the report, or the exception.
ReportLines(lines) == [thrown |-> FALSE, lines |-> lines]
ReportThrown == [thrown |-> TRUE, lines |-> <<>>]

generateValidationReport(scheduleData_, ajv) ==
    LET validation == validateScheduleData(scheduleData_, ajv)
    IN  IF StatisticsThrow(scheduleData_) THEN ReportThrown
        ELSE
        LET stats == generateDataStatistics(scheduleData_)
        IN  ReportLines(
              <<Line("=== Schedule Data Validation Report ===", -1, NoDiagnostic),
                Line("Context: Unknown", -1, NoDiagnostic),
                Line("Timestamp:", -1, NoDiagnostic),
                Blank,
                Line("Summary:", -1, NoDiagnostic),
                Line(IF validation.isValid THEN "- Overall Status: VALID"
                     ELSE "- Overall Status: INVALID", -1, NoDiagnostic),
                Line("- Errors:", Len(validation.errors), NoDiagnostic),
                Line("- Warnings:", Len(validation.warnings), NoDiagnostic),
                Blank,
                Line("Data Statistics:", -1, NoDiagnostic),
                Line("- Days:", stats.daysCount, NoDiagnostic),
                Line("- Categories:", stats.categoriesCount, NoDiagnostic),
                Line("- Total Sessions:", stats.totalSessions, NoDiagnostic),
                Line("- Total Speakers:", stats.totalSpeakers, NoDiagnostic),
                Line("- Unique Speakers:", stats.uniqueSpeakers, NoDiagnostic),
                Blank>>
              \o Section("Errors:", validation.errors)
              \o Section("Warnings:", validation.warnings)
              \o (IF validation.isValid /\ Len(validation.warnings) = 0
                  THEN <<Line("All validations passed successfully!", -1, NoDiagnostic)>>
                  ELSE <<>>))

(***************************************************************************)
(* loadAndValidateScheduleData.  `file` is what readFileSync and           *)
(* JSON.parse make of the path: "missing" (readFileSync raises), "invalid" *)
(* (JSON.parse raises a SyntaxError) or "parsed", the document then being  *)
(* scheduleData.  The call hands back the document, or the Error it        *)
(* raises: its fixed text and what it carries.                             *)
(***************************************************************************)
\* error.severity.toUpperCase()
SeverityUpperCase(severity) == IF severity = "error" THEN "ERROR" ELSE "WARNING"

\* formatValidationErrors: one line `${SEVERITY}: ${message}${context}` per
\* error, joined by newlines; '' for no error.
formatValidationErrors(errors) ==
    [i \in 1..Len(errors) |->
        [severity |-> SeverityUpperCase(errors[i].severity),
         message |-> errors[i].message,
         context |-> errors[i].context]]

Loaded(scheduleData_) == [raised |-> "", carries |-> <<>>, returned |-> scheduleData_]

Raised(text, carries) == [raised |-> text, carries |-> carries, returned |-> Undef]

\* The message of the SyntaxError of JSON.parse.
ParserMessage == <<[severity |-> "", message |-> <<"Unexpected token", "", Undef>>,
                    context |-> NoContext]>>

\* A loader that takes a warning for a failure.
loadAndValidateScheduleData_strict(file, scheduleData_, ajv) ==
    IF file = "missing" THEN Raised("ENOENT", <<>>)
    ELSE IF file = "invalid" THEN Raised("Invalid JSON in", ParserMessage)
    ELSE LET validation == validateScheduleData(scheduleData_, ajv)
         IN  IF ~validation.isValid \/ Len(validation.warnings) > 0
             THEN Raised("Schedule data validation failed for",
                         formatValidationErrors(validation.errors))
             ELSE Loaded(scheduleData_)

loadAndValidateScheduleData(file, scheduleData_, ajv) ==
    IF file = "missing" THEN Raised("ENOENT", <<>>)
    ELSE IF file = "invalid" THEN Raised("Invalid JSON in", ParserMessage)
    ELSE LET validation == validateScheduleData(scheduleData_, ajv)
         IN  IF ~validation.isValid
             THEN Raised("Schedule data validation failed for",
                         formatValidationErrors(validation.errors))
             ELSE Loaded(scheduleData_)

(***************************************************************************)
(* validateSchedule, the command-line script.  `file` is what the file     *)
(* system and JSON.parse hand it: "missing", "invalid" (no JSON) or        *)
(* "parsed", the document then being scheduleData.  An Exit(1, ...) is an   *)
(* error line on standard error followed by process.exit(1).               *)
(***************************************************************************)
FileOutcomes == {"missing", "invalid", "parsed"}

Exit(code, line) == [exit |-> code, line |-> line]

\* !Array.isArray(x) || x.length === 0
NotNonEmptyArray(x) == ~IsArray(x) \/ Len(x.items) = 0

validateSchedule_typeOnly(file, scheduleData_) ==
    IF file = "missing" THEN Exit(1, "File not found")
    ELSE IF file = "invalid" THEN Exit(1, "Invalid JSON format")
    ELSE IF ~CanRead(scheduleData_) THEN Exit(1, "Validation error")
    ELSE IF \E field \in {"days", "categories", "sessions"} : ~Truthy(Get(scheduleData_, field))
    THEN Exit(1, "Missing required fields")
    ELSE IF ~IsArray(Get(scheduleData_, "days")) THEN Exit(1, "Invalid or empty days array")
    ELSE IF ~IsArray(Get(scheduleData_, "categories"))
    THEN Exit(1, "Invalid or empty categories array")
    ELSE IF ~IsObjectType(Get(scheduleData_, "sessions")) THEN Exit(1, "Invalid sessions object")
    ELSE Exit(0, "Schedule validation passed")

validateSchedule(file, scheduleData_) ==
    IF file = "missing" THEN Exit(1, "File not found")
    ELSE IF file = "invalid" THEN Exit(1, "Invalid JSON format")
    ELSE IF ~CanRead(scheduleData_) THEN Exit(1, "Validation error")
    ELSE IF \E field \in {"days", "categories", "sessions"} : ~Truthy(Get(scheduleData_, field))
    THEN Exit(1, "Missing required fields")
    ELSE IF NotNonEmptyArray(Get(scheduleData_, "days"))
    THEN Exit(1, "Invalid or empty days array")
    ELSE IF NotNonEmptyArray(Get(scheduleData_, "categories"))
    THEN Exit(1, "Invalid or empty categories array")
    ELSE IF ~IsObjectType(Get(scheduleData_, "sessions")) THEN Exit(1, "Invalid sessions object")
    ELSE Exit(0, "Schedule validation passed")

(***************************************************************************)
(* getBilingualDisplayText                                                 *)
(***************************************************************************)
getBilingualDisplayText_collapsed(textObj_, fallback_) ==
    IF IsString(textObj_) THEN textObj_
    ELSE IF ~Truthy(textObj_) THEN fallback_
    ELSE IF IsObjectType(textObj_) /\ (HasKey(textObj_, "en") \/ HasKey(textObj_, "zh"))
    THEN LET zhText == Or(Get(textObj_, "zh"), Str(<<>>))
             enText == Or(Get(textObj_, "en"), Str(<<>>))
         IN  IF Truthy(zhText) /\ Truthy(enText) THEN enText
             ELSE IF Truthy(zhText) THEN zhText
             ELSE IF Truthy(enText) THEN enText
             ELSE fallback_
    ELSE fallback_

getBilingualDisplayText(textObj_, fallback_) ==
    IF IsString(textObj_) THEN textObj_
    ELSE IF ~Truthy(textObj_) THEN fallback_
    ELSE IF IsObjectType(textObj_) /\ (HasKey(textObj_, "en") \/ HasKey(textObj_, "zh"))
    THEN LET zhText == Or(Get(textObj_, "zh"), Str(<<>>))
             enText == Or(Get(textObj_, "en"), Str(<<>>))
         IN  IF Truthy(zhText) /\ Truthy(enText) THEN Obj([en |-> enText, zh |-> zhText])
             ELSE IF Truthy(zhText) THEN zhText
             ELSE IF Truthy(enText) THEN enText
             ELSE fallback_
    ELSE fallback_

(***************************************************************************)
(* The safe functions take an optional callback onError(error, context).   *)
(* What a call of one of them hands back is the value it returns together  *)
(* with the invocations of the callback it made, in order.  An invocation  *)
(* is [message, context]: the message as in a diagnostic, the context a    *)
(* path (a validation context, a one-segment tag, or none).                *)
(***************************************************************************)
Call(message, context) == [message |-> message, context |-> context]

Outcome(returned, calls) == [returned |-> returned, calls |-> calls]

\* onError?.(text) and onError?.(text, 'tag')
Report(text) == <<Call(<<text, "", Undef>>, NoContext)>>
ReportLanguage(text, lang) ==
    <<Call(<<text, lang, Undef>>, <<Seg("language_fallback", <<>>, -1)>>)>>

\* x?.trim() raises when x is neither nullish nor a string.
TrimRaises(x) == ~IsNullish(x) /\ ~IsString(x)

\* x?.trim() || ''
TrimmedOrEmpty(x) == IF IsString(x) THEN Str(Trim(x.s)) ELSE Str(<<>>)

\* A safe accessor that trims nothing.
safeGetBilingualText_noTrim(textObj_, currentLang_, fallback_) ==
    IF ~Truthy(textObj_)
    THEN Outcome(fallback_, Report("Text object is null or undefined"))
    ELSE IF IsString(textObj_) THEN Outcome(textObj_, <<>>)
    ELSE IF IsObjectType(textObj_) /\ (HasKey(textObj_, "en") \/ HasKey(textObj_, "zh"))
    THEN IF TrimRaises(Get(textObj_, "zh")) \/ TrimRaises(Get(textObj_, "en"))
         THEN Outcome(fallback_, Report("Error processing bilingual text"))
         ELSE
         LET zhText == Or(Get(textObj_, "zh"), Str(<<>>))
             enText == Or(Get(textObj_, "en"), Str(<<>>))
         IN  IF currentLang_ = "zh" /\ Truthy(zhText) THEN Outcome(zhText, <<>>)
             ELSE IF currentLang_ = "en" /\ Truthy(enText) THEN Outcome(enText, <<>>)
             ELSE IF Truthy(zhText)
             THEN Outcome(zhText, ReportLanguage("Missing translation, using Chinese", currentLang_))
             ELSE IF Truthy(enText)
             THEN Outcome(enText, ReportLanguage("Missing translation, using English", currentLang_))
             ELSE Outcome(fallback_, Report("No valid text found in bilingual object"))
    ELSE Outcome(fallback_, Report("Invalid bilingual text object structure"))

\* The whole body runs in one try block: the TypeError of a trim() on a
\* language that is no string is caught, reported, and gives the fallback.
safeGetBilingualText(textObj_, currentLang_, fallback_) ==
    IF ~Truthy(textObj_)
    THEN Outcome(fallback_, Report("Text object is null or undefined"))
    ELSE IF IsString(textObj_) THEN Outcome(Or(Str(Trim(textObj_.s)), fallback_), <<>>)
    ELSE IF IsObjectType(textObj_) /\ (HasKey(textObj_, "en") \/ HasKey(textObj_, "zh"))
    THEN IF TrimRaises(Get(textObj_, "zh")) \/ TrimRaises(Get(textObj_, "en"))
         THEN Outcome(fallback_, Report("Error processing bilingual text"))
         ELSE
         LET zhText == TrimmedOrEmpty(Get(textObj_, "zh"))
             enText == TrimmedOrEmpty(Get(textObj_, "en"))
         IN  IF currentLang_ = "zh" /\ Truthy(zhText) THEN Outcome(zhText, <<>>)
             ELSE IF currentLang_ = "en" /\ Truthy(enText) THEN Outcome(enText, <<>>)
             ELSE IF Truthy(zhText)
             THEN Outcome(zhText, ReportLanguage("Missing translation, using Chinese", currentLang_))
             ELSE IF Truthy(enText)
             THEN Outcome(enText, ReportLanguage("Missing translation, using English", currentLang_))
             ELSE Outcome(fallback_, Report("No valid text found in bilingual object"))
    ELSE Outcome(fallback_, Report("Invalid bilingual text object structure"))

(***************************************************************************)
(* safeProcessBilingualSchedule                                            *)
(***************************************************************************)
\* The own properties a spread {...x} copies: those of an object, the
\* elements of an array or the characters of a string under their indices,
\* none of null, undefined or a number.  (No dictionary is spread here.)
Spread(x) ==
    CASE x.t = "object" -> x.fields
      [] x.t = "array" ->
            [k \in {ToString(i - 1) : i \in 1..Len(x.items)} |->
                x.items[CHOOSE i \in 1..Len(x.items) : ToString(i - 1) = k]]
      [] x.t = "string" ->
            [k \in {ToString(i - 1) : i \in 1..Len(x.s)} |->
                Str(<<x.s[CHOOSE i \in 1..Len(x.s) : ToString(i - 1) = k]>>)]
      [] OTHER -> [k \in {} |-> Undef]

\* { ...fields, k: v }
WithField(fields, k, v) ==
    [x \in (DOMAIN fields) \cup {k} |-> IF x = k THEN v ELSE fields[x]]

\* What a message of the processor interpolates: the position of the entity.
Where(n, categoryId, index, speakerIndex) ==
    [n |-> n, k |-> categoryId, i |-> index, j |-> speakerIndex]

ReportAt(text, where) == <<Call(<<text, "", where>>, NoContext)>>

\* A forwarding that hands over the message alone.
Forward_messageOnly(diagnostics) ==
    [i \in 1..Len(diagnostics) |-> Call(diagnostics[i].message, NoContext)]

\* errors.forEach(error => onError?.(error.message, error.context))
Forward(diagnostics) ==
    [i \in 1..Len(diagnostics) |-> Call(diagnostics[i].message, diagnostics[i].context)]

\* The returned values and the invocations of a sequence of outcomes.
Returned(outcomes) == [i \in 1..Len(outcomes) |-> outcomes[i].returned]
\* The invocations of a sequence of outcomes, those of the last entity first.
Calls_lastFirst(outcomes) ==
    Flatten([i \in 1..Len(outcomes) |-> outcomes[Len(outcomes) + 1 - i].calls])

Calls(outcomes) == Flatten([i \in 1..Len(outcomes) |-> outcomes[i].calls])

\* The callback of the days map, lines 826-839.
ProcessDay(day, index) ==
    IF ~CanRead(day)
    THEN Outcome(day, ReportAt("Error processing day", Where("day", <<>>, index - 1, -1)))
    ELSE LET en == safeGetBilingualText(Get(day, "url"), "en", Str(<<>>))
             zh == safeGetBilingualText(Get(day, "url"), "zh", Str(<<>>))
         IN  Outcome(Obj(WithField(Spread(day), "url",
                         Obj([en |-> en.returned, zh |-> zh.returned]))),
                     en.calls \o zh.calls)

\* The callback of the categories map, lines 841-848: a spread never raises.
ProcessCategory(category, index) == Outcome(Obj(Spread(category)), <<>>)

\* String(x), for the values x || '' may be.
StringOf(x) == IF IsString(x) THEN x ELSE Str(<<"1">>)

\* A coercion that fills the English side only.
AsPair_enOnly(x) ==
    IF IsObjectType(x) THEN x
    ELSE Obj([en |-> StringOf(Or(x, Str(<<>>)))])

\* typeof x === 'object' ? x : { en: String(x || ''), zh: String(x || '') }
AsPair(x) ==
    IF IsObjectType(x) THEN x
    ELSE Obj([en |-> StringOf(Or(x, Str(<<>>))), zh |-> StringOf(Or(x, Str(<<>>)))])

\* The callback of the speakers map, lines 858-875.
ProcessSpeaker(speaker, speakerIndex, index, categoryId) ==
    IF ~CanRead(speaker)
    THEN Outcome(speaker, ReportAt("Error processing speaker in session of category",
                              Where("speaker", categoryId, index - 1, speakerIndex - 1)))
    ELSE Outcome(Obj(WithField(WithField(Spread(speaker),
                         "name", AsPair(Get(speaker, "name"))),
                         "roleOrg", AsPair(Get(speaker, "roleOrg")))),
                 <<>>)

\* The callback of the sessions map, lines 854-881.
ProcessSession(session, index, categoryId) ==
    IF ~CanRead(session) \/ ~IsArray(Or(Get(session, "speakers"), Arr(<<>>)))
    THEN Outcome(session, ReportAt("Error processing session in category",
                              Where("session", categoryId, index - 1, -1)))
    ELSE LET speakers == Or(Get(session, "speakers"), Arr(<<>>)).items
             outcomes == [speakerIndex \in 1..Len(speakers) |->
                             ProcessSpeaker(speakers[speakerIndex], speakerIndex, index, categoryId)]
         IN  Outcome(Obj(WithField(Spread(session), "speakers", Arr(Returned(outcomes)))),
                     Calls(outcomes))

\* A processor that leaves out the sessions it cannot process.
ProcessBucket_dropFailed(entry) ==
    LET sessions == Or(entry.v, Arr(<<>>))
    IN  IF ~IsArray(sessions)
        THEN Outcome([k |-> entry.k, v |-> sessions],
                     ReportAt("Error processing sessions for category",
                         Where("category", entry.k, -1, -1)))
        ELSE LET readable ==
                     SelectSeq(sessions.items,
                         LAMBDA session : CanRead(session)
                             /\ IsArray(Or(Get(session, "speakers"), Arr(<<>>))))
                 outcomes == [index \in 1..Len(readable) |->
                                 ProcessSession(readable[index], index, entry.k)]
             IN  Outcome([k |-> entry.k, v |-> Arr(Returned(outcomes))], Calls(outcomes))

\* One key of the sessions object, lines 852-886: the processed bucket.
ProcessBucket(entry) ==
    LET sessions == Or(entry.v, Arr(<<>>))
    IN  IF ~IsArray(sessions)
        THEN Outcome([k |-> entry.k, v |-> sessions],
                     ReportAt("Error processing sessions for category",
                         Where("category", entry.k, -1, -1)))
        ELSE LET outcomes == [index \in 1..Len(sessions.items) |->
                                 ProcessSession(sessions.items[index], index, entry.k)]
             IN  Outcome([k |-> entry.k, v |-> Arr(Returned(outcomes))], Calls(outcomes))

\* The catch of the outer try block, lines 893-897.
Critical(scheduleData_, calls) ==
    Outcome(scheduleData_, calls \o Report("Critical error processing schedule data"))

safeProcessBilingualSchedule(scheduleData_) ==
    LET validation == validateBilingualScheduleData(scheduleData_)
    IN  IF validation.thrown THEN Critical(scheduleData_, <<>>)
        ELSE
        LET forwarded == (IF ~validation.isValid THEN Forward(validation.errors) ELSE <<>>)
                         \o Forward(validation.warnings)
        IN  IF ~CanRead(scheduleData_) \/ ~IsArray(Or(Get(scheduleData_, "days"), Arr(<<>>)))
            THEN Critical(scheduleData_, forwarded)
            ELSE
            LET days == Or(Get(scheduleData_, "days"), Arr(<<>>)).items
                processedDays == [index \in 1..Len(days) |-> ProcessDay(days[index], index)]
            IN  IF ~IsArray(Or(Get(scheduleData_, "categories"), Arr(<<>>)))
                THEN Critical(scheduleData_, forwarded \o Calls(processedDays))
                ELSE
                LET categories == Or(Get(scheduleData_, "categories"), Arr(<<>>)).items
                    processedCategories ==
                        [index \in 1..Len(categories) |-> ProcessCategory(categories[index], index)]
                    entries == Entries(SessionsOrEmpty(scheduleData_))
                    processedSessions == [i \in 1..Len(entries) |-> ProcessBucket(entries[i])]
                IN  Outcome(Obj([days |-> Arr(Returned(processedDays)),
                                 categories |-> Arr(Returned(processedCategories)),
                                 sessions |-> Map(Returned(processedSessions))]),
                            forwarded \o Calls(processedDays) \o Calls(processedCategories)
                                \o Calls(processedSessions))

(***************************************************************************)
(* processBilingualSchedule, the processor without guards.  Nothing is     *)
(* caught: a map() of a value that is no array, a property read of null or *)
(* undefined and Object.keys of null or undefined raise a TypeError out of *)
(* the call.                                                               *)
(***************************************************************************)
TypeError == [raised |-> TRUE, returned |-> Undef]
Completed(returned) == [raised |-> FALSE, returned |-> returned]

\* a || b || ''
OrElseEmpty(a, b) == Or(Or(a, b), Str(<<>>))

\* The callback of the days map, lines 106-112.
MapDayRaises(day) == ~CanRead(day) \/ ~CanRead(Get(day, "url"))

MapDay(day) ==
    LET url == Get(day, "url")
    IN  Obj(WithField(Spread(day), "url",
            Obj([en |-> OrElseEmpty(Get(url, "en"), Get(url, "zh")),
                 zh |-> OrElseEmpty(Get(url, "zh"), Get(url, "en"))])))

\* typeof x === 'object' ? x : { en: x, zh: x }
AsRawPair(x) == IF IsObjectType(x) THEN x ELSE Obj([en |-> x, zh |-> x])

\* The callback of the speakers map, lines 125-130.
MapSpeakerRaises(speaker) == ~CanRead(speaker)

MapSpeaker(speaker) ==
    Obj(WithField(WithField(Spread(speaker),
            "name", AsRawPair(Get(speaker, "name"))),
            "roleOrg", AsRawPair(Get(speaker, "roleOrg"))))

\* The callback of the sessions map, lines 123-131.
MapSessionRaises(session) ==
    \/ ~CanRead(session)
    \/ ~IsArray(Get(session, "speakers"))
    \/ \E j \in 1..Len(Get(session, "speakers").items) :
          MapSpeakerRaises(Get(session, "speakers").items[j])

MapSession(session) ==
    LET speakers == Get(session, "speakers").items
    IN  Obj(WithField(Spread(session), "speakers",
            Arr([j \in 1..Len(speakers) |-> MapSpeaker(speakers[j])])))

\* One key of Object.keys(scheduleData.sessions), lines 122-132.
MapBucketRaises(entry) ==
    \/ ~IsArray(entry.v)
    \/ \E i \in 1..Len(entry.v.items) : MapSessionRaises(entry.v.items[i])

MapBucket(entry) ==
    [k |-> entry.k, v |-> Arr([i \in 1..Len(entry.v.items) |-> MapSession(entry.v.items[i])])]

processBilingualScheduleRaises(scheduleData_) ==
    \/ ~CanRead(scheduleData_)
    \/ ~IsArray(Get(scheduleData_, "days"))
    \/ \E i \in 1..Len(Get(scheduleData_, "days").items) :
          MapDayRaises(Get(scheduleData_, "days").items[i])
    \/ ~IsArray(Get(scheduleData_, "categories"))
    \/ ~CanRead(Get(scheduleData_, "sessions"))
    \/ \E i \in 1..Len(Entries(Get(scheduleData_, "sessions"))) :
          MapBucketRaises(Entries(Get(scheduleData_, "sessions"))[i])

processBilingualSchedule(scheduleData_) ==
    IF processBilingualScheduleRaises(scheduleData_) THEN TypeError
    ELSE LET days == Get(scheduleData_, "days").items
             categories == Get(scheduleData_, "categories").items
             entries == Entries(Get(scheduleData_, "sessions"))
         IN  Completed(Obj([days |-> Arr([i \in 1..Len(days) |-> MapDay(days[i])]),
                            categories |-> Arr([i \in 1..Len(categories) |->
                                                   Obj(Spread(categories[i]))]),
                            sessions |-> Map([i \in 1..Len(entries) |-> MapBucket(entries[i])])]))

(***************************************************************************)
(* The inputs of the text functions: every string of at most MaxStrLen     *)
(* characters over a blank and two letters, null, undefined, a number, and *)
(* every object with an `en` and/or a `zh` property that is null or such a *)
(* string.                                                                 *)
(***************************************************************************)
Chars == {" ", "a", "b"}

Strings == SeqsUpTo(Chars, MaxStrLen)

StringValues == {Str(s) : s \in Strings}

PairObjects ==
    UNION {{Obj(f) : f \in [K -> {Null} \cup StringValues]} : K \in SUBSET {"en", "zh"}}

\* A value that is no text at all.
OddTexts == {Arr(<<>>)}

TextValues == {Undef, Null, Num} \cup StringValues \cup PairObjects \cup OddTexts

Fallbacks == {Str(<<>>), Str(<<"f">>)}

NoData == Undef
NoText == Undef
NoArg == [required |-> FALSE]
NoResult == Undef

InitText ==
    /\ textObj \in TextValues
    /\ currentLang \in {"en", "zh"}
    /\ fallback \in Fallbacks
    /\ scheduleData = NoData
    /\ called = "none"
    /\ arg = NoArg
    /\ result = NoResult

CallGetBilingualText ==
    /\ called = "none"
    /\ called' = "getBilingualText"
    /\ result' = getBilingualText(textObj, currentLang, fallback)
    /\ UNCHANGED <<textObj, currentLang, fallback, scheduleData, arg>>

CallValidateBilingualText ==
    /\ called = "none"
    /\ \E required \in BOOLEAN :
         /\ arg' = [required |-> required]
         /\ result' = validateBilingualText(textObj, "test.field", required)
    /\ called' = "validateBilingualText"
    /\ UNCHANGED <<textObj, currentLang, fallback, scheduleData>>

CallGetBilingualDisplayText ==
    /\ called = "none"
    /\ called' = "getBilingualDisplayText"
    /\ result' = getBilingualDisplayText(textObj, fallback)
    /\ UNCHANGED <<textObj, currentLang, fallback, scheduleData, arg>>

CallSafeGetBilingualText ==
    /\ called = "none"
    /\ called' = "safeGetBilingualText"
    /\ result' = safeGetBilingualText(textObj, currentLang, fallback)
    /\ UNCHANGED <<textObj, currentLang, fallback, scheduleData, arg>>

CallIsValidBilingualText ==
    /\ called = "none"
    /\ called' = "isValidBilingualText"
    /\ result' = isValidBilingualText(textObj)
    /\ UNCHANGED <<textObj, currentLang, fallback, scheduleData, arg>>

NextText ==
    \/ CallGetBilingualText
    \/ CallValidateBilingualText
    \/ CallGetBilingualDisplayText
    \/ CallSafeGetBilingualText
    \/ CallIsValidBilingualText

SpecText == InitText /\ [][NextText]_vars

(***************************************************************************)
(* The documents the validators are called on.  Text fields other than the *)
(* one a family varies hold GoodText.                                      *)
(***************************************************************************)
GoodText == Obj([en |-> Str(<<"a">>), zh |-> Str(<<"b">>)])
EnOnly == Obj([en |-> Str(<<"a">>), zh |-> Str(<<>>)])
NoLanguage == Obj([en |-> Str(<<>>), zh |-> Str(<<" ">>)])
PlainText == Str(<<"a">>)

GoodTime == Str(<<"1", "0", ":", "1", "5", " ", "-", " ", "1", "0", ":", "5", "0">>)
BadTime == Str(<<"n", "o", "o", "n">>)
GoodImage == Str(<<"p", ".", "j", "p", "g">>)

Day(url) == Obj([date |-> GoodText, title |-> GoodText, url |-> url])
Category(id) == Obj([id |-> id, name |-> GoodText, room |-> GoodText])
Speaker(id, name, image) ==
    Obj([id |-> id, name |-> name, roleOrg |-> GoodText, tags |-> Arr(<<>>), image |-> image])
Session(timeSlot, speakers) ==
    Obj([date |-> GoodText, timeSlot |-> timeSlot, title |-> GoodText,
         content |-> GoodText, speakers |-> speakers])
Document(days, categories, sessions) ==
    Obj([days |-> days, categories |-> categories, sessions |-> sessions])

IdA == Str(<<"a">>)
IdB == Str(<<"b">>)
IdP == Str(<<"p">>)
IdQ == Str(<<"q">>)
NoId == Str(<<>>)

GoodDay == Day(GoodText)
CategoryA == Category(IdA)
SpeakerP == Speaker(IdP, GoodText, GoodImage)
SpeakerQ == Speaker(IdQ, GoodText, GoodImage)
GoodSession == Session(GoodTime, Arr(<<SpeakerP>>))
GoodSessions == Map(<<[k |-> <<"a">>, v |-> Arr(<<GoodSession>>)]>>)

DaySamples ==
    {Null, GoodDay, Day(PlainText), Day(EnOnly),
     Obj([date |-> GoodText, title |-> NoLanguage])}

CategorySamples ==
    {Null, CategoryA, Category(IdB), Category(NoId),
     Obj([name |-> GoodText, room |-> GoodText]),
     Obj([id |-> IdA, name |-> PlainText, room |-> Str(<<" ">>)])}

SpeakerSamples ==
    {Null, SpeakerP,
     Speaker(NoId, PlainText, PlaceholderImage),
     Obj([id |-> IdQ, name |-> EnOnly, tags |-> Str(<<"a">>)])}

SessionSamples ==
    {Null, Session(BadTime, Str(<<"a">>)),
     Obj([date |-> GoodText, title |-> PlainText, content |-> NoLanguage])}
    \cup {Session(GoodTime, Arr(<<sp>>)) : sp \in SpeakerSamples}
    \cup {Obj([date |-> GoodText, timeSlot |-> GoodTime, title |-> GoodText,
               content |-> GoodText, speakers |-> Arr(<<>>), room |-> room]) :
             room \in {Null, Str(<<>>), Str(<<" ">>), NoLanguage, EnOnly, PlainText,
                       Obj([en |-> Str(<<>>), zh |-> Str(<<>>)]), Obj([en |-> Str(<<>>)])}}

\* The shapes of the three containers, days and categories beside sessions.
DaysShapes == {Undef, Str(<<"a">>), Arr(<<>>), Arr(<<GoodDay>>)}
CategoriesShapes == {Undef, Null, Str(<<"a">>), Arr(<<>>), Arr(<<CategoryA>>)}
SessionsShapes ==
    {Undef, Null, Num, Map(<<>>), GoodSessions,
     Map(<<[k |-> <<"a">>, v |-> Arr(<<>>)]>>),
     Map(<<[k |-> <<"x">>, v |-> Num]>>),
     Map(<<[k |-> <<"x">>, v |-> Arr(<<GoodSession>>)], [k |-> <<"a">>, v |-> Arr(<<>>)]>>)}

ShapeDocuments ==
    {Undef, Null, Num, Str(<<"a">>)}
    \cup {Document(d, c, s) : d \in DaysShapes, c \in CategoriesShapes, s \in SessionsShapes}

DayDocuments ==
    {Document(Arr(ds), Arr(<<CategoryA>>), GoodSessions) : ds \in SeqsUpTo(DaySamples, MaxDays)}

CategoryDocuments ==
    {Document(Arr(<<GoodDay>>), Arr(cs), s) :
        cs \in SeqsUpTo(CategorySamples, MaxCategories),
        s \in {Map(<<>>), GoodSessions}}

SessionDocuments ==
    {Document(Arr(<<GoodDay>>), Arr(<<CategoryA>>), Map(<<[k |-> <<"a">>, v |-> Arr(ss)]>>)) :
        ss \in SeqsUpTo(SessionSamples, MaxSessions)}

DataDocuments == ShapeDocuments \cup DayDocuments \cup CategoryDocuments \cup SessionDocuments

InitData ==
    /\ scheduleData \in DataDocuments
    /\ textObj = NoText
    /\ currentLang = "en"
    /\ fallback = Str(<<>>)
    /\ called = "none"
    /\ arg = NoArg
    /\ result = NoResult

\* The elements of an array property of the document; none when it is no array.
Items(x) == IF IsArray(x) THEN x.items ELSE <<>>

CallValidateBilingualScheduleData ==
    /\ called = "none"
    /\ called' = "validateBilingualScheduleData"
    /\ result' = validateBilingualScheduleData(scheduleData)
    /\ UNCHANGED <<textObj, currentLang, fallback, scheduleData, arg>>

CallValidateScheduleData ==
    /\ called = "none"
    /\ \E ajv \in AjvOutcomes :
         /\ arg' = [ajv |-> ajv]
         /\ result' = validateScheduleData(scheduleData, ajv)
    /\ called' = "validateScheduleData"
    /\ UNCHANGED <<textObj, currentLang, fallback, scheduleData>>

\* JSON.parse never yields undefined.
CallValidateSchedule ==
    /\ called = "none"
    /\ scheduleData # Undef
    /\ \E file \in FileOutcomes :
         /\ arg' = [file |-> file]
         /\ result' = validateSchedule(file, scheduleData)
    /\ called' = "validateSchedule"
    /\ UNCHANGED <<textObj, currentLang, fallback, scheduleData>>

\* The entity validators, each called on an entity of the document with the
\* context validateBilingualScheduleData hands it.
CallValidateBilingualDay ==
    /\ called = "none"
    /\ \E index \in 1..Len(Items(Get(scheduleData, "days"))) :
         /\ arg' = [index |-> index]
         /\ result' = validateBilingualDay(Get(scheduleData, "days").items[index],
                          <<Seg("days", <<>>, index - 1)>>)
    /\ called' = "validateBilingualDay"
    /\ UNCHANGED <<textObj, currentLang, fallback, scheduleData>>

CallValidateBilingualCategory ==
    /\ called = "none"
    /\ \E index \in 1..Len(Items(Get(scheduleData, "categories"))) :
         /\ arg' = [index |-> index]
         /\ result' = validateBilingualCategory(Get(scheduleData, "categories").items[index],
                          <<Seg("categories", <<>>, index - 1)>>)
    /\ called' = "validateBilingualCategory"
    /\ UNCHANGED <<textObj, currentLang, fallback, scheduleData>>

CallValidateBilingualSession ==
    /\ called = "none"
    /\ \E e \in 1..Len(Entries(Get(scheduleData, "sessions"))) :
         LET entry == Entries(Get(scheduleData, "sessions"))[e]
         IN  \E index \in 1..Len(Items(entry.v)) :
                /\ arg' = [key |-> entry.k, index |-> index]
                /\ result' = validateBilingualSession(entry.v.items[index],
                                 <<Seg("sessions", entry.k, index - 1)>>)
    /\ called' = "validateBilingualSession"
    /\ UNCHANGED <<textObj, currentLang, fallback, scheduleData>>

CallValidateBilingualSpeaker ==
    /\ called = "none"
    /\ \E e \in 1..Len(Entries(Get(scheduleData, "sessions"))) :
         LET entry == Entries(Get(scheduleData, "sessions"))[e]
         IN  \E index \in 1..Len(Items(entry.v)) :
               LET speakers == Items(Get(entry.v.items[index], "speakers"))
               IN  \E speakerIndex \in 1..Len(speakers) :
                     /\ arg' = [key |-> entry.k, index |-> index, speakerIndex |-> speakerIndex]
                     /\ result' = validateBilingualSpeaker(speakers[speakerIndex],
                                      <<Seg("sessions", entry.k, index - 1),
                                        Seg("speakers", <<>>, speakerIndex - 1)>>)
    /\ called' = "validateBilingualSpeaker"
    /\ UNCHANGED <<textObj, currentLang, fallback, scheduleData>>

\* validateBilingualText on the url of a day, required or optional.
CallValidateBilingualTextOfDay ==
    /\ called = "none"
    /\ \E index \in 1..Len(Items(Get(scheduleData, "days"))), required \in BOOLEAN :
         /\ CanRead(Get(scheduleData, "days").items[index])
         /\ arg' = [index |-> index, required |-> required]
         /\ result' = validateBilingualText(Get(Get(scheduleData, "days").items[index], "url"),
                          "day.url", required)
    /\ called' = "validateBilingualText"
    /\ UNCHANGED <<textObj, currentLang, fallback, scheduleData>>

\* JSON.parse never hands back undefined.
CallLoadAndValidateScheduleData ==
    /\ called = "none"
    /\ scheduleData # Undef
    /\ \E file \in FileOutcomes, ajv \in AjvOutcomes :
         /\ arg' = [file |-> file, ajv |-> ajv]
         /\ result' = loadAndValidateScheduleData(file, scheduleData, ajv)
    /\ called' = "loadAndValidateScheduleData"
    /\ UNCHANGED <<textObj, currentLang, fallback, scheduleData>>

CallGenerateValidationReport ==
    /\ called = "none"
    /\ \E ajv \in AjvOutcomes :
         /\ arg' = [ajv |-> ajv]
         /\ result' = generateValidationReport(scheduleData, ajv)
    /\ called' = "generateValidationReport"
    /\ UNCHANGED <<textObj, currentLang, fallback, scheduleData>>

NextData ==
    \/ CallValidateBilingualScheduleData
    \/ CallValidateScheduleData
    \/ CallGenerateValidationReport
    \/ CallLoadAndValidateScheduleData
    \/ CallValidateSchedule
    \/ CallValidateBilingualDay
    \/ CallValidateBilingualCategory
    \/ CallValidateBilingualSession
    \/ CallValidateBilingualSpeaker
    \/ CallValidateBilingualTextOfDay

SpecData == InitData /\ [][NextData]_vars

(***************************************************************************)
(* The documents the business rules are called on: the sessions of at most *)
(* MaxSessions sessions holding at most MaxSpeakers speakers together,     *)
(* spread over a category key and an orphaned key; one session with every  *)
(* drawn time slot; and the malformed documents.                           *)
(***************************************************************************)
RuleSpeakers == {SpeakerP, SpeakerQ, Speaker(NoId, GoodText, GoodImage)}

\* The lists of at most k speaker lists holding at most n speakers together.
RECURSIVE SpeakerListsWithin(_, _)
SpeakerListsWithin(k, n) ==
    IF k = 0 THEN {<<>>}
    ELSE {<<>>} \cup
         UNION {{<<l>> \o rest : l \in [1..m -> RuleSpeakers],
                                   rest \in SpeakerListsWithin(k - 1, n - m)} :
                   m \in 0..n}

\* The sessions object holding the first `cut` sessions under key a and the
\* others under key x.
SplitSessions(ss, cut) ==
    Map((IF cut > 0
         THEN <<[k |-> <<"a">>, v |-> Arr(SubSeq(ss, 1, cut))]>> ELSE <<>>)
        \o (IF cut < Len(ss)
            THEN <<[k |-> <<"x">>, v |-> Arr(SubSeq(ss, cut + 1, Len(ss)))]>> ELSE <<>>))

RuleCategories == Arr(<<CategoryA, Category(IdB)>>)

\* (a cut beyond the last session puts them all under key a)
SpeakerDocuments ==
    {Document(Arr(<<GoodDay>>), RuleCategories,
         SplitSessions([i \in 1..Len(ls) |-> Session(GoodTime, Arr(ls[i]))],
                       IF cut < Len(ls) THEN cut ELSE Len(ls))) :
        ls \in SpeakerListsWithin(MaxSessions, MaxSpeakers), cut \in 0..MaxSessions}

Blanks(n) == [i \in 1..n |-> " "]

StartClocks ==
    {<<"9", ":", "0", "0">>, <<"1", "0", ":", "1", "5">>,
     <<"1", "0", "0", ":", "1", "5">>, <<"x", ":", "1", "5">>}

EndClocks ==
    {<<"9", ":", "0", "0">>, <<"1", "0", ":", "1", "5">>, <<"9", ":", "0">>}

Dashes == {<<"-">>, <<>>, <<"-", "-">>}

\* lead, clock, blanks, dash, blanks, clock, trail
TimeRangeStrings ==
    {Blanks(lead) \o c1 \o Blanks(before) \o dash \o Blanks(after) \o c2 \o Blanks(trail) :
        lead \in 0..MaxPad, before \in 0..MaxPad, after \in 0..MaxPad, trail \in 0..MaxPad,
        c1 \in StartClocks, c2 \in EndClocks, dash \in Dashes}

PlaceholderStrings ==
    {<<"T", "B", "D">>, <<"t", "b", "d">>, <<" ", "T", "b", "d", " ", "x">>, <<"t", " ", "b", "d">>,
     <<"A", "l", "l", " ", "d", "a", "y">>, <<"x", "A", "L", "L", " ", "D", "A", "Y">>,
     <<"a", "l", "l", "d", "a", "y">>, <<"a", "l", "l", " ", " ", "d", "a", "y">>,
     <<"quan", "tian">>, <<"quan">>, <<"tian", "quan">>, <<"quan", "tian", " ", "9", ":", "0", "0">>,
     <<>>, <<" ">>, <<"n", "o", "o", "n">>}

TimeSlotValues ==
    {Null, Num, GoodTime} \cup {Str(s) : s \in TimeRangeStrings \cup PlaceholderStrings}

TimeSlotDocuments ==
    {Document(Arr(<<GoodDay>>), Arr(<<CategoryA>>),
         Map(<<[k |-> <<"a">>, v |-> Arr(<<Session(ts, Arr(<<SpeakerP>>))>>)]>>)) :
        ts \in TimeSlotValues}

\* A session with two warnings of its own (a repeated speaker, an unusual
\* time slot) beside a sibling the scan cannot read.
NoisySession == Session(BadTime, Arr(<<SpeakerP, SpeakerP>>))

UnreadableSessions ==
    {Null, Session(BadTime, Str(<<"a">>)), Session(BadTime, Num),
     Session(BadTime, Arr(<<SpeakerQ, Null>>))}

OddSessions ==
    UnreadableSessions \cup
    {Session(BadTime, Null), Obj([timeSlot |-> BadTime]),
     Session(BadTime, Arr(<<Speaker(IdP, GoodText, PlaceholderImage), Obj([id |-> IdP])>>))}

MalformedDocuments ==
    {Undef, Null, Num}
    \cup {Document(Arr(<<GoodDay>>), Arr(<<CategoryA>>), Map(<<[k |-> <<"a">>, v |-> Arr(ss)]>>)) :
            ss \in UNION {{<<d>>, <<NoisySession, d>>, <<d, NoisySession>>} : d \in OddSessions}}
    \cup {Document(Arr(<<GoodDay>>), c, s) :
            c \in {Undef, Str(<<"a">>), Arr(<<>>), Arr(<<CategoryA>>), Arr(<<Null>>)},
            s \in {Undef, Null, Num, Map(<<>>),
                   Map(<<[k |-> <<"a">>, v |-> Num]>>),
                   Map(<<[k |-> <<"a">>, v |-> Arr(<<NoisySession>>)], [k |-> <<"x">>, v |-> Null]>>),
                   Map(<<[k |-> <<"x">>, v |-> Str(<<>>)], [k |-> <<"a">>, v |-> Arr(<<NoisySession>>)]>>)}}

RuleDocuments == SpeakerDocuments \cup TimeSlotDocuments \cup MalformedDocuments

InitRules ==
    /\ scheduleData \in RuleDocuments
    /\ textObj = NoText
    /\ currentLang = "en"
    /\ fallback = Str(<<>>)
    /\ called = "none"
    /\ arg = NoArg
    /\ result = NoResult

CallValidateBusinessRules ==
    /\ called = "none"
    /\ called' = "validateBusinessRules"
    /\ result' = validateBusinessRules(scheduleData)
    /\ UNCHANGED <<textObj, currentLang, fallback, scheduleData, arg>>

NextRules ==
    \/ CallValidateBusinessRules
    \/ CallValidateScheduleData

SpecRules == InitRules /\ [][NextRules]_vars

(***************************************************************************)
(* The documents the safe processor is called on: those of the validators, *)
(* a day with every drawn url, a speaker with every drawn name and         *)
(* roleOrg, and documents with several troubles at once.                   *)
(***************************************************************************)
UrlStrings == {<<>>, <<" ">>, <<"a">>, <<" ", "b", " ">>}

UrlValues ==
    {Undef, Null, Num, Arr(<<>>), Obj([other |-> Str(<<"a">>)]),
     Obj([en |-> Num, zh |-> Str(<<"a">>)]), Obj([en |-> Str(<<"a">>)]), Obj([zh |-> Null])}
    \cup {Str(s) : s \in UrlStrings}
    \cup {Obj([en |-> Str(en), zh |-> Str(zh)]) : en \in UrlStrings, zh \in UrlStrings}

UrlDocuments ==
    {Document(Arr(<<Day(url)>>), Arr(<<CategoryA>>), GoodSessions) : url \in UrlValues}

JaneDoe == Str(<<"J", "a", "n", "e", " ", "D", "o", "e">>)

NameValues == {Undef, Null, Num, Str(<<>>), JaneDoe, GoodText, EnOnly, Arr(<<>>)}

NameDocuments ==
    {Document(Arr(<<GoodDay>>), Arr(<<CategoryA>>),
         Map(<<[k |-> <<"a">>,
                v |-> Arr(<<Session(GoodTime,
                          Arr(<<SpeakerP,
                                Obj([id |-> IdQ, name |-> name, roleOrg |-> roleOrg,
                                     tags |-> Arr(<<>>), image |-> GoodImage])>>))>>)]>>)) :
        name \in NameValues, roleOrg \in NameValues}

TroubledDays ==
    {<<GoodDay>>, <<Day(EnOnly)>>, <<Day(Str(<<" ">>)), Obj([date |-> GoodText, title |-> PlainText])>>,
     <<Num, Day(EnOnly)>>}

TroubledCategories ==
    {<<CategoryA>>, <<Category(NoId), Num>>, <<CategoryA, Obj([id |-> IdA, name |-> PlainText])>>}

TroubledSessions ==
    {GoodSessions,
     Map(<<[k |-> <<"x">>, v |-> Num],
           [k |-> <<"a">>, v |-> Arr(<<Session(BadTime, Str(<<"a">>)), GoodSession>>)]>>),
     Map(<<[k |-> <<"a">>, v |-> Arr(<<GoodSession, Session(GoodTime, Num), Num>>)],
           [k |-> <<"b">>, v |-> Null],
           [k |-> <<"x">>, v |-> Str(<<"a">>)]>>),
     Map(<<[k |-> <<"b">>, v |-> Arr(<<Session(Null, Arr(<<Num, Speaker(NoId, JaneDoe, Null)>>)),
                                       Session(GoodTime, Obj([other |-> Null]))>>)]>>)}

TroubledDocuments ==
    {Document(Arr(d), Arr(c), s) :
        d \in TroubledDays, c \in TroubledCategories, s \in TroubledSessions}

SafeDocuments == DataDocuments \cup UrlDocuments \cup NameDocuments \cup TroubledDocuments

InitSafe ==
    /\ scheduleData \in SafeDocuments
    /\ textObj = NoText
    /\ currentLang \in {"en", "zh"}
    /\ fallback = Str(<<>>)
    /\ called = "none"
    /\ arg = NoArg
    /\ result = NoResult

CallSafeProcessBilingualSchedule ==
    /\ called = "none"
    /\ called' = "safeProcessBilingualSchedule"
    /\ result' = safeProcessBilingualSchedule(scheduleData)
    /\ UNCHANGED <<textObj, currentLang, fallback, scheduleData, arg>>

\* The processor called on what its first call returned; `arg` keeps the
\* outcome of the first call.
CallSafeProcessBilingualScheduleAgain ==
    /\ called = "safeProcessBilingualSchedule"
    /\ called' = "safeProcessBilingualSchedule again"
    /\ arg' = [first |-> result]
    /\ result' = safeProcessBilingualSchedule(result.returned)
    /\ UNCHANGED <<textObj, currentLang, fallback, scheduleData>>

CallProcessBilingualSchedule ==
    /\ called = "none"
    /\ called' = "processBilingualSchedule"
    /\ result' = processBilingualSchedule(scheduleData)
    /\ UNCHANGED <<textObj, currentLang, fallback, scheduleData, arg>>

NextSafe ==
    \/ CallSafeProcessBilingualSchedule
    \/ CallSafeProcessBilingualScheduleAgain
    \/ CallProcessBilingualSchedule

SpecSafe == InitSafe /\ [][NextSafe]_vars

(***************************************************************************)
(* Sequences of calls on one document.  The document is an object of the   *)
(* caller: what a call leaves in it is the value it had with the           *)
(* assignments of the call applied.  The validators assign to their own    *)
(* errors and warnings arrays only; the processor assigns to the arrays    *)
(* map() returns, to the object literals it builds and to its own          *)
(* processedSessions.  `arg` keeps the document as it was before the first *)
(* call and the number of calls made.                                      *)
(***************************************************************************)
\* The document after a validator ran on it.
DocumentAfterValidation(scheduleData_) == scheduleData_

\* A processor that normalizes the document in place.
DocumentAfterProcessing_inPlace(scheduleData_) ==
    safeProcessBilingualSchedule(scheduleData_).returned

\* The document after the processor ran on it.
DocumentAfterProcessing(scheduleData_) == scheduleData_

FrameDocuments == UrlDocuments \cup NameDocuments \cup TroubledDocuments \cup ShapeDocuments

InitFrame ==
    /\ scheduleData \in FrameDocuments
    /\ textObj = NoText
    /\ currentLang = "en"
    /\ fallback = Str(<<>>)
    /\ called = "none"
    /\ arg = [original |-> scheduleData, calls |-> 0]
    /\ result = NoResult

ThenValidateBilingualScheduleData ==
    /\ arg.calls < MaxCalls
    /\ called' = "validateBilingualScheduleData"
    /\ result' = validateBilingualScheduleData(scheduleData)
    /\ scheduleData' = DocumentAfterValidation(scheduleData)
    /\ arg' = [arg EXCEPT !.calls = @ + 1]
    /\ UNCHANGED <<textObj, currentLang, fallback>>

ThenValidateScheduleData ==
    /\ arg.calls < MaxCalls
    /\ called' = "validateScheduleData"
    /\ \E ajv \in AjvOutcomes : result' = validateScheduleData(scheduleData, ajv)
    /\ scheduleData' = DocumentAfterValidation(scheduleData)
    /\ arg' = [arg EXCEPT !.calls = @ + 1]
    /\ UNCHANGED <<textObj, currentLang, fallback>>

ThenSafeProcessBilingualSchedule ==
    /\ arg.calls < MaxCalls
    /\ called' = "safeProcessBilingualSchedule"
    /\ result' = safeProcessBilingualSchedule(scheduleData)
    /\ scheduleData' = DocumentAfterProcessing(scheduleData)
    /\ arg' = [arg EXCEPT !.calls = @ + 1]
    /\ UNCHANGED <<textObj, currentLang, fallback>>

NextFrame ==
    \/ ThenValidateBilingualScheduleData
    \/ ThenValidateScheduleData
    \/ ThenSafeProcessBilingualSchedule

SpecFrame == InitFrame /\ [][NextFrame]_vars

(***************************************************************************)
(* Claims about the text functions (checked under SpecText).               *)
(***************************************************************************)
\* The string a language property of a pair carries: the empty string when
\* the property is absent or null.
LangString(x, k) == IF HasKey(x, k) /\ IsString(x.fields[k]) THEN x.fields[k].s ELSE <<>>

\* A text without any character other than blanks.
AllBlanks(s) == \A i \in 1..Len(s) : s[i] = " "

IsPair(x) == x.t = "object"

\* C3: getBilingualText on a pair {en, zh}: both languages non-empty gives
\* exactly the string of the requested language; exactly one non-empty gives
\* that one whichever language was requested; both empty gives the fallback.
C3_PairAccessor ==
    (called = "getBilingualText" /\ IsPair(textObj)) =>
        LET en == LangString(textObj, "en")
            zh == LangString(textObj, "zh")
        IN  /\ (en # <<>> /\ zh # <<>>) =>
                    result = Str(IF currentLang = "zh" THEN zh ELSE en)
            /\ (en # <<>> /\ zh = <<>>) => result = Str(en)
            /\ (en = <<>> /\ zh # <<>>) => result = Str(zh)
            /\ (en = <<>> /\ zh = <<>>) => result = fallback

C3_Witness ==
    /\ called = "getBilingualText"
    /\ IsPair(textObj)
    /\ currentLang = "zh"
    /\ LangString(textObj, "en") = <<"a">>
    /\ LangString(textObj, "zh") = <<"b">>
    /\ result = Str(<<"b">>)

\* C4: getBilingualText returns a plain string unchanged, the empty string and
\* whitespace-only strings included, and the fallback for null and undefined.
C4_StringPassThrough ==
    called = "getBilingualText" =>
        /\ IsString(textObj) => result = textObj
        /\ IsNullish(textObj) => result = fallback

C4_Witness ==
    /\ called = "getBilingualText"
    /\ textObj = Str(<<" ">>)
    /\ fallback = Str(<<"f">>)
    /\ result = Str(<<" ">>)

\* The number of languages among en, zh for which `missing` holds.
MissingCount(x, missing(_)) ==
    (IF missing(LangString(x, "en")) THEN 1 ELSE 0)
    + (IF missing(LangString(x, "zh")) THEN 1 ELSE 0)

\* The rules of a required text field, `empty` deciding which strings count
\* as empty.
RequiredTextRules(empty(_)) ==
    (called = "validateBilingualText" /\ arg.required /\ textObj.t # "number") =>
        LET absent == IsNullish(textObj) \/ (IsString(textObj) /\ empty(textObj.s))
            plain == IsString(textObj) /\ ~empty(textObj.s)
            missing == IF IsPair(textObj) THEN MissingCount(textObj, empty) ELSE 0
        IN  /\ ~result.thrown
            /\ absent => (Len(result.errors) = 1 /\ ~result.isValid)
            /\ plain => /\ result.errors = <<>>
                        /\ Len(result.warnings) = 1
                        /\ result.isValid
            /\ (IsPair(textObj) /\ missing < 2) =>
                        /\ result.errors = <<>>
                        /\ result.isValid
                        /\ Len(result.warnings) = missing
            /\ (IsPair(textObj) /\ missing = 2) =>
                        (Len(result.errors) >= 1 /\ ~result.isValid)

IsEmptyString(s) == s = <<>>

\* C5 as stated: a required text is absent when it is missing or the empty
\* string; a non-empty plain string gives one warning and no error; a pair
\* with a non-empty language is valid with one warning per missing language;
\* a pair with both languages empty gives an error.
C5_AsStated == RequiredTextRules(IsEmptyString)

\* C5 (amended): the same rules where a string counts as empty when it holds
\* no character other than whitespace: a whitespace-only plain string gives
\* exactly one error, and a whitespace-only language of a pair is missing.
C5_RequiredText == RequiredTextRules(AllBlanks)

C5_Witness ==
    /\ called = "validateBilingualText"
    /\ arg.required
    /\ IsPair(textObj)
    /\ LangString(textObj, "en") = <<" ">>
    /\ LangString(textObj, "zh") = <<"b">>
    /\ result.isValid
    /\ Len(result.warnings) = 1

(***************************************************************************)
(* Claims about the validators (checked under SpecData).                   *)
(***************************************************************************)
\* The number of elements of a sequence that satisfy P.
Count(seq, P(_)) == Cardinality({i \in 1..Len(seq) : P(seq[i])})

\* C1: validateBilingualScheduleData never raises for malformed data: for
\* every input it returns a ValidationResult instead of throwing.
C1_NeverRaises ==
    called = "validateBilingualScheduleData" => ~result.thrown

Validators ==
    {"validateBilingualText", "validateBilingualSpeaker", "validateBilingualSession",
     "validateBilingualCategory", "validateBilingualDay",
     "validateBilingualScheduleData", "validateScheduleData"}

\* C2: every ValidationResult a validator returns has isValid = true if and
\* only if its errors list is empty, whatever the number of warnings.
C2_ValidIffNoErrors ==
    (called \in Validators /\ ~result.thrown) =>
        (result.isValid <=> result.errors = <<>>)

C2_Witness ==
    /\ called = "validateScheduleData"
    /\ ~result.thrown
    /\ result.errors = <<>>
    /\ Len(result.warnings) >= 2
    /\ result.isValid

IsDaysError(e) == e.field = "scheduleData.days"
IsCategoriesError(e) == e.field = "scheduleData.categories"
IsSessionsError(e) == e.field = "scheduleData.sessions"
AboutDay(e) == e.field \in {"day.date", "day.title", "day.url"}
AboutCategory(e) == e.field \in {"category.id", "category.name", "category.room"}

\* C6: when `days` (resp. `categories`) is not an array the result holds
\* exactly one error with field scheduleData.days (resp.
\* scheduleData.categories) and no element of that field is validated; when
\* `sessions` is null or not an object the result holds an error with field
\* scheduleData.sessions; in each case a result is returned with isValid
\* false, whatever the other top-level fields are (their checks still run).
C6_ContainerChecks ==
    (called = "validateBilingualScheduleData" /\ scheduleData.t = "object") =>
        LET days == Get(scheduleData, "days")
            categories == Get(scheduleData, "categories")
            sessions == Get(scheduleData, "sessions")
            diagnostics == result.errors \o result.warnings
        IN  /\ ~IsArray(days) =>
                  /\ ~result.thrown /\ ~result.isValid
                  /\ Count(result.errors, IsDaysError) = 1
                  /\ Count(diagnostics, AboutDay) = 0
            /\ ~IsArray(categories) =>
                  /\ ~result.thrown /\ ~result.isValid
                  /\ Count(result.errors, IsCategoriesError) = 1
                  /\ Count(diagnostics, AboutCategory) = 0
            /\ (IsNullish(sessions) \/ ~IsObjectType(sessions)) =>
                  /\ ~result.thrown /\ ~result.isValid
                  /\ Count(result.errors, IsSessionsError) >= 1

\* The 'Duplicate category ID' errors of the result at category `index`.
DuplicateErrorsAt(index) ==
    {i \in 1..Len(result.errors) :
        /\ result.errors[i].message[1] = "Duplicate category ID found"
        /\ result.errors[i].context = <<Seg("categories", <<>>, index - 1)>>}

\* The duplicate rule, `counts` deciding which ids take part in it: category
\* `index` gets exactly one duplicate error, naming its id, when its id is
\* the id of an earlier category, and none otherwise; and two valid
\* categories sharing id "a" give exactly one error.
DuplicateRule(counts(_)) ==
    (called = "validateBilingualScheduleData" /\ ~result.thrown
        /\ IsArray(Get(scheduleData, "categories"))) =>
        LET categories == Get(scheduleData, "categories").items
            Repeats(index) ==
                /\ counts(Get(categories[index], "id"))
                /\ \E j \in 1..(index - 1) :
                      Get(categories[j], "id") = Get(categories[index], "id")
        IN  /\ \A index \in 1..Len(categories) :
                  /\ Cardinality(DuplicateErrorsAt(index)) = (IF Repeats(index) THEN 1 ELSE 0)
                  /\ \A i \in DuplicateErrorsAt(index) :
                        result.errors[i].message[3] = Get(categories[index], "id")
            /\ scheduleData = Document(Arr(<<GoodDay>>), Arr(<<CategoryA, CategoryA>>), GoodSessions)
                  => /\ Len(result.errors) = 1
                     /\ result.errors[1].message[3] = IdA

\* C7 as stated: every category whose id equals the id of an earlier
\* category yields exactly one 'Duplicate category ID' error naming that id,
\* with that category's index as context; a first occurrence yields none.
C7_AsStated == DuplicateRule(IsString)

\* C7 (amended): the same for every category whose id is not empty: two
\* categories whose id is the empty string yield no duplicate error.
C7_DuplicateCategoryId == DuplicateRule(Truthy)

C7_Witness ==
    /\ called = "validateBilingualScheduleData"
    /\ scheduleData = Document(Arr(<<GoodDay>>), Arr(<<CategoryA, CategoryA>>), GoodSessions)
    /\ Len(result.errors) = 1
    /\ DuplicateErrorsAt(2) = {1}

EmptyDocument == Document(Arr(<<>>), Arr(<<>>), Map(<<>>))

\* C8: on {days: [], categories: [], sessions: {}} the library validator
\* returns isValid true with no errors, while the command-line script reports
\* a failure and ends with a non-zero status; the script does so for every
\* parsed document whose `days` or `categories` is an empty array.
C8_LayersDiffer ==
    /\ (called = "validateBilingualScheduleData" /\ scheduleData = EmptyDocument) =>
            (~result.thrown /\ result.isValid /\ result.errors = <<>>)
    /\ (called = "validateSchedule" /\ arg.file = "parsed" /\ scheduleData.t = "object"
        /\ (Get(scheduleData, "days") = Arr(<<>>) \/ Get(scheduleData, "categories") = Arr(<<>>)))
            => result.exit = 1
    /\ (called = "validateSchedule" /\ arg.file = "parsed" /\ scheduleData = EmptyDocument)
            => result.line = "Invalid or empty days array"

C8_Witness ==
    /\ called = "validateSchedule"
    /\ arg.file = "parsed"
    /\ scheduleData = EmptyDocument
    /\ result.exit = 1

(***************************************************************************)
(* Claims about the business rules, checked under SpecRules.               *)
(***************************************************************************)
\* The business-rule pass ran to its end: the result holds neither the error
\* of its catch block nor the one of validateScheduleData's.
PassFailed(e) == e.field \in {"business_rules", "validation_process"}

PassCompleted ==
    /\ called \in {"validateBusinessRules", "validateScheduleData"}
    /\ Count(result.errors, PassFailed) = 0

\* The sessions of the document, bucket after bucket, whatever its shape.
DocSessions ==
    LET buckets == Buckets(scheduleData)
    IN  Flatten([b \in 1..Len(buckets) |-> Items(buckets[b])])

SpeakerIdsIn(session) ==
    LET speakers == Items(Get(session, "speakers"))
    IN  {Get(speakers[j], "id") : j \in 1..Len(speakers)}

SpeakerIds == UNION {SpeakerIdsIn(DocSessions[n]) : n \in 1..Len(DocSessions)}

SessionsWith(id) == {n \in 1..Len(DocSessions) : id \in SpeakerIdsIn(DocSessions[n])}

Occurrences(id) ==
    {<<n, j>> \in (1..Len(DocSessions)) \X (1..MaxSpeakers + 1) :
        /\ j <= Len(Items(Get(DocSessions[n], "speakers")))
        /\ Get(Items(Get(DocSessions[n], "speakers"))[j], "id") = id}

IsDuplicateWarning(w) == w.message[1] = "Speaker ID appears multiple times"

DuplicateWarningsFor(id) ==
    Cardinality({i \in 1..Len(result.warnings) :
        IsDuplicateWarning(result.warnings[i]) /\ result.warnings[i].message[3] = id})

BlankRun(s, a, b) == \A i \in a..b : s[i] = " "

\* s[a..b] is H:MM or HH:MM.
IsClock(s, a, b) ==
    /\ b - a + 1 \in {4, 5}
    /\ s[b - 2] = ":"
    /\ \A i \in a..b : i # b - 2 => IsDigit(s[i])

\* H:MM - H:MM: a clock on each side of one dash, blanks allowed around the
\* dash and around the whole.
HasTimeRangeShape(s) ==
    \E d \in 1..Len(s) :
        /\ s[d] = "-"
        /\ \E a \in 1..d, b \in 1..d :
               BlankRun(s, 1, a - 1) /\ IsClock(s, a, b) /\ b < d /\ BlankRun(s, b + 1, d - 1)
        /\ \E a \in (d + 1)..Len(s), b \in (d + 1)..Len(s) :
               BlankRun(s, d + 1, a - 1) /\ IsClock(s, a, b) /\ BlankRun(s, b + 1, Len(s))

ContainsIgnoringCase(s, word) ==
    \E i \in 1..(Len(s) - Len(word) + 1) :
        \A j \in 1..Len(word) : ToLowerChar(s[i + j - 1]) = word[j]

\* A non-empty timeSlot that has neither the shape nor a placeholder in it.
Unusual(timeSlot) ==
    /\ Truthy(timeSlot)
    /\ ~(/\ IsString(timeSlot)
         /\ \/ HasTimeRangeShape(timeSlot.s)
            \/ \E word \in {Tbd, AllDay, QuanTian} : ContainsIgnoringCase(timeSlot.s, word))

IsUnusual(e) == Unusual(e.timeSlot)

\* The sessions a time-slot warning is due for: position in the bucket and
\* timeSlot, in the order of the document.
UnusualSessions ==
    LET buckets == Buckets(scheduleData)
    IN  Flatten([b \in 1..Len(buckets) |->
            SelectSeq([i \in 1..Len(Items(buckets[b])) |->
                          [index |-> i - 1, timeSlot |-> Get(Items(buckets[b])[i], "timeSlot")]],
                      IsUnusual)])

IsTimeSlotWarning(w) == w.message[1] = "Session has unusual time slot format"

\* The time-slot warnings of the result: the position and the string each names.
TimeSlotWarned ==
    LET found == SelectSeq(result.warnings, IsTimeSlotWarning)
    IN  [i \in 1..Len(found) |->
            [index |-> found[i].context[1].i, timeSlot |-> found[i].message[3]]]

NeverWarned ==
    {GoodTime, Str(<<"T", "B", "D">>), Str(<<"A", "l", "l", " ", "d", "a", "y">>), Str(QuanTian)}

TimeSlotRule ==
    /\ TimeSlotWarned = UnusualSessions
    /\ \A i \in 1..Len(TimeSlotWarned) : TimeSlotWarned[i].timeSlot \notin NeverWarned

IsBusinessError(e) == e.field = "business_rules"
IsProcessError(e) == e.field = "validation_process"

\* The two failures the claim names: `sessions` null or absent beside a
\* non-empty category list, and a session bucket that is not a list.
RaisesInRules ==
    \/ /\ IsNullish(Get(scheduleData, "sessions"))
       /\ Items(Get(scheduleData, "categories")) # <<>>
    \/ \E b \in 1..Len(Buckets(scheduleData)) : ~IsArray(Buckets(scheduleData)[b])

\* C11: a failure raised while the business-rule checks run never leaves
\* validateScheduleData: the call returns a result that holds exactly one
\* error with field business_rules and has isValid false; no result holds
\* more than one such error.
C11_BusinessFailureCaught ==
    called = "validateScheduleData" =>
        /\ ~result.thrown
        /\ Count(result.errors, IsBusinessError) <= 1
        /\ Count(result.errors, IsBusinessError) = 1 => ~result.isValid
        /\ (RaisesInRules /\ Count(result.errors, IsProcessError) = 0) =>
               Count(result.errors, IsBusinessError) = 1

\* `sessions` null beside one category: the structural error and the caught
\* failure.
C11_Witness ==
    /\ called = "validateScheduleData"
    /\ Get(scheduleData, "sessions") = Null
    /\ Get(scheduleData, "categories") = Arr(<<CategoryA>>)
    /\ Count(result.errors, IsBusinessError) = 1
    /\ Count(result.errors, IsSessionsError) = 1
    /\ ~result.isValid

(***************************************************************************)
(* Claims about the safe processor, checked under SpecSafe.                *)
(***************************************************************************)
\* The document has its three containers: a list of days, a list of
\* categories, and a dictionary whose values are lists.
WellContained ==
    /\ scheduleData.t = "object"
    /\ IsArray(Get(scheduleData, "days"))
    /\ IsArray(Get(scheduleData, "categories"))
    /\ Get(scheduleData, "sessions").t = "map"
    /\ \A b \in 1..Len(Buckets(scheduleData)) : IsArray(Buckets(scheduleData)[b])

\* The callback was invoked with this text about this position.
Reported(text, where) ==
    \E c \in 1..Len(result.calls) :
        /\ result.calls[c].message[1] = text
        /\ result.calls[c].message[3] = where

\* x is a pair of two strings.
IsStringPair(x) ==
    /\ x.t = "object"
    /\ DOMAIN x.fields = {"en", "zh"}
    /\ IsString(x.fields.en) /\ IsString(x.fields.zh)

\* A session the processor cannot process: null, or with speakers that are
\* no list.
Unprocessable(session) ==
    \/ IsNullish(session)
    \/ (Truthy(Get(session, "speakers")) /\ ~IsArray(Get(session, "speakers")))

\* The speakers of a session as the processor walks them.
SpeakerList(session) == Items(Get(session, "speakers"))

\* C12: in safeProcessBilingualSchedule no single bad entity aborts the
\* pass: for a null day, a null or speakers-not-a-list session and a null
\* speaker the callback receives a message naming its position, the output
\* holds the original entity at that position, and every sibling is in its
\* normalized form (a day with a url pair, a speaker with a name and roleOrg
\* that are not plain strings).
C12_NoEntityAborts ==
    (called = "safeProcessBilingualSchedule" /\ WellContained) =>
        LET days == Get(scheduleData, "days").items
            outDays == Items(Get(result.returned, "days"))
            buckets == Buckets(scheduleData)
            keys == Entries(Get(scheduleData, "sessions"))
            outBuckets == Buckets(result.returned)
        IN  /\ Len(outDays) = Len(days)
            /\ \A i \in 1..Len(days) :
                  IF IsNullish(days[i])
                  THEN /\ Reported("Error processing day", Where("day", <<>>, i - 1, -1))
                       /\ outDays[i] = days[i]
                  ELSE IsStringPair(Get(outDays[i], "url"))
            /\ Len(outBuckets) = Len(buckets)
            /\ \A b \in 1..Len(buckets) :
                  /\ Len(Items(outBuckets[b])) = Len(buckets[b].items)
                  /\ \A n \in 1..Len(buckets[b].items) :
                        LET session == buckets[b].items[n]
                            outSession == outBuckets[b].items[n]
                        IN  IF Unprocessable(session)
                            THEN /\ Reported("Error processing session in category",
                                         Where("session", keys[b].k, n - 1, -1))
                                 /\ outSession = session
                            ELSE /\ Len(SpeakerList(outSession)) = Len(SpeakerList(session))
                                 /\ \A j \in 1..Len(SpeakerList(session)) :
                                       IF IsNullish(SpeakerList(session)[j])
                                       THEN /\ Reported("Error processing speaker in session of category",
                                                    Where("speaker", keys[b].k, n - 1, j - 1))
                                            /\ SpeakerList(outSession)[j] = SpeakerList(session)[j]
                                       ELSE /\ ~IsString(Get(SpeakerList(outSession)[j], "name"))
                                            /\ ~IsString(Get(SpeakerList(outSession)[j], "roleOrg"))

\* C13: when the input of safeProcessBilingualSchedule is not an object
\* (null, undefined, a string, a number) the failure is reported through the
\* callback and the value returned is the input itself.
C13_NonObjectInput ==
    (called = "safeProcessBilingualSchedule"
        /\ scheduleData.t \in {"null", "undefined", "string", "number"}) =>
        /\ result.calls # <<>>
        /\ result.returned = scheduleData

\* The validation the processor starts with returned a result.
Validated == ~validateBilingualScheduleData(scheduleData).thrown

\* The coerced form of a speaker's name or roleOrg, as the claim states it:
\* an object is kept, a string becomes the pair of that string twice, and
\* anything else becomes some pair of strings.
Coerced(in, out) ==
    IF in.t \in {"object", "array", "map"} THEN out = in
    ELSE /\ IsStringPair(out)
         /\ IsString(in) => (out.fields.en = in /\ out.fields.zh = in)

\* C14: after safeProcessBilingualSchedule, for every speaker of every
\* session that was processed, name and roleOrg in the output are bilingual
\* pairs: the input itself when it was already an object, otherwise a pair
\* whose en and zh both equal the input string.
C14_SpeakerPairs ==
    (called = "safeProcessBilingualSchedule" /\ WellContained /\ Validated) =>
        LET buckets == Buckets(scheduleData)
            outBuckets == Buckets(result.returned)
        IN  \A b \in 1..Len(buckets) :
                \A n \in 1..Len(buckets[b].items) :
                    LET session == buckets[b].items[n]
                        outSession == outBuckets[b].items[n]
                    IN  ~Unprocessable(session) =>
                            \A j \in 1..Len(SpeakerList(session)) :
                                LET speaker == SpeakerList(session)[j]
                                    outSpeaker == SpeakerList(outSession)[j]
                                IN  ~IsNullish(speaker) =>
                                        /\ Coerced(Get(speaker, "name"), Get(outSpeaker, "name"))
                                        /\ Coerced(Get(speaker, "roleOrg"), Get(outSpeaker, "roleOrg"))

\* The second of two runs of the processor, on the output of the first.
RanAgain == called = "safeProcessBilingualSchedule again"

DayFields == {"day.date", "day.title", "day.url"}
CategoryFields == {"category.name", "category.room"}
SessionFields ==
    {"session.date", "session.title", "session.content", "session.room",
     "speaker.name", "speaker.roleOrg"}
AccessorTexts ==
    {"Text object is null or undefined", "No valid text found in bilingual object",
     "Invalid bilingual text object structure", "Error processing bilingual text"}

Concerns(call) ==
    LET m == call.message
    IN  IF "n" \in DOMAIN m[3] THEN (IF m[3].n = "day" THEN 1 ELSE 3)
        ELSE IF call.context # <<>>
        THEN CASE call.context[1].n \in {"days", "language_fallback"} -> 1
               [] call.context[1].n = "categories" -> 2
               [] call.context[1].n = "sessions" -> 3
               [] OTHER -> 0
        ELSE IF m[2] \in DayFields \/ m[1] \in AccessorTexts \/ m[1] = "Days must be an array"
        THEN 1
        ELSE IF m[2] \in CategoryFields \/ m[1] = "Categories must be an array"
        THEN 2
        ELSE IF m[2] \in SessionFields
                \/ m[1] \in {"Sessions must be an object", "Sessions for category must be an array"}
        THEN 3
        ELSE 0

\* The position of a key among the keys of the sessions object.
KeyIndex(k) ==
    LET entries == Entries(Get(scheduleData, "sessions"))
    IN  CHOOSE b \in 1..Len(entries) : entries[b].k = k

NonNegative(i) == IF i >= 0 THEN <<i>> ELSE <<>>

\* The place an invocation names, as far as it names one: the index of a
\* day or category, or the key position, session index and speaker index.
Place(call) ==
    LET m == call.message
    IN  IF "n" \in DOMAIN m[3]
        THEN (IF m[3].n = "day" THEN <<m[3].i>>
              ELSE <<KeyIndex(m[3].k)>> \o NonNegative(m[3].i) \o NonNegative(m[3].j))
        ELSE IF call.context # <<>>
        THEN (IF call.context[1].n = "sessions"
              THEN <<KeyIndex(call.context[1].k)>> \o NonNegative(call.context[1].i)
                       \o (IF Len(call.context) > 1 THEN <<call.context[2].i>> ELSE <<>>)
              ELSE NonNegative(call.context[1].i))
        ELSE IF m[1] = "Sessions for category must be an array" THEN <<KeyIndex(m[3].s)>>
        ELSE <<>>

\* No place of p lies after the place of q, as far as both are named.
NotAfter(p, q) ==
    ~\E i \in 1..Len(p) :
        /\ i <= Len(q)
        /\ p[i] > q[i]
        /\ \A j \in 1..(i - 1) : p[j] = q[j]

\* Invocation c, made before invocation d, is in traversal order with it.
InTraversalOrder(c, d) ==
    \/ Concerns(c) = 0
    \/ Concerns(d) = 0
    \/ Concerns(c) < Concerns(d)
    \/ (Concerns(c) = Concerns(d) /\ NotAfter(Place(c), Place(d)))

\* The part of the call an invocation belongs to: 1 the forwarded errors,
\* 2 the forwarded warnings, 3 the processing.
Part(c) ==
    LET validation == validateBilingualScheduleData(scheduleData)
    IN  IF c <= Len(validation.errors) THEN 1
        ELSE IF c <= Len(validation.errors) + Len(validation.warnings) THEN 2
        ELSE 3

\* C16 as stated: during one call of safeProcessBilingualSchedule every
\* invocation concerning a day precedes every invocation concerning a
\* category, which precedes every invocation concerning a session or
\* speaker, sessions by key in key order and speakers in list order.
C16_AsStated ==
    called = "safeProcessBilingualSchedule" =>
        \A d \in 1..Len(result.calls) : \A c \in 1..(d - 1) :
            InTraversalOrder(result.calls[c], result.calls[d])

\* C16: the invocations of one call of safeProcessBilingualSchedule come in
\* three parts, the forwarded errors, the forwarded warnings and the
\* invocations made while processing, and within each part they are in
\* traversal order: days, then categories, then sessions by key in key
\* order and speakers in list order.
C16_TraversalOrder ==
    called = "safeProcessBilingualSchedule" =>
        \A d \in 1..Len(result.calls) : \A c \in 1..(d - 1) :
            /\ Part(c) <= Part(d)
            /\ Part(c) = Part(d) => InTraversalOrder(result.calls[c], result.calls[d])

C16_Witness ==
    /\ called = "safeProcessBilingualSchedule"
    /\ \E d \in 1..Len(result.calls) : \E c \in 1..(d - 1) :
          /\ Part(c) = 3 /\ Part(d) = 3
          /\ Concerns(result.calls[c]) = 3 /\ Concerns(result.calls[d]) = 3
          /\ Place(result.calls[c]) # Place(result.calls[d])
    /\ \E d \in 1..Len(result.calls) : \E c \in 1..(d - 1) :
          /\ Part(c) = 1 /\ Part(d) = 1
          /\ Concerns(result.calls[c]) = 1 /\ Concerns(result.calls[d]) = 3

\* The errors, then the warnings, of the validation of the input.
Diagnostics ==
    LET validation == validateBilingualScheduleData(scheduleData)
    IN  validation.errors \o validation.warnings

\* An invocation made while processing: by the processor about an entity it
\* names, by the accessor about the url of a day, or by the outer catch.
ByProcessing(call) ==
    \/ "n" \in DOMAIN call.message[3]
    \/ call.message[1] \in AccessorTexts
    \/ call.message[1] \in {"Missing translation, using Chinese",
                            "Missing translation, using English",
                            "Critical error processing schedule data"}

\* C17: safeProcessBilingualSchedule runs the structural validation before
\* any processing and forwards every error and every warning of it exactly
\* once as (message, context): the first errors.length + warnings.length
\* invocations are those diagnostics, in their order, and every later
\* invocation is caused by processing.
C17_ValidationForwardedFirst ==
    called = "safeProcessBilingualSchedule" =>
        /\ Len(result.calls) >= Len(Diagnostics)
        /\ \A c \in 1..Len(Diagnostics) :
              /\ result.calls[c].message = Diagnostics[c].message
              /\ result.calls[c].context = Diagnostics[c].context
              /\ ~ByProcessing(result.calls[c])
        /\ \A c \in (Len(Diagnostics) + 1)..Len(result.calls) : ByProcessing(result.calls[c])

C17_Witness ==
    /\ called = "safeProcessBilingualSchedule"
    /\ LET validation == validateBilingualScheduleData(scheduleData)
       IN  /\ ~validation.thrown
           /\ validation.errors # <<>>
           /\ validation.warnings # <<>>
           /\ \E e \in 1..Len(validation.errors) : validation.errors[e].context # NoContext
    /\ Len(result.calls) > Len(Diagnostics)
    /\ result.returned # scheduleData

\* A url the claim speaks of: a pair whose languages are strings, either of
\* which may be missing.
IsUrlPair(url) ==
    /\ url.t = "object"
    /\ DOMAIN url.fields \subseteq {"en", "zh"}
    /\ \A l \in DOMAIN url.fields : IsString(url.fields[l])

\* The text of one language of such a pair, '' when missing.
UrlText(url, l) == IF HasKey(url, l) THEN url.fields[l].s ELSE <<>>

\* The days of the input that are processed, with their outputs.
ProcessedDays ==
    IF called = "safeProcessBilingualSchedule" /\ Validated
       /\ IsArray(Get(scheduleData, "days"))
       /\ \A c \in 1..Len(result.calls) :
              result.calls[c].message[1] # "Critical error processing schedule data"
    THEN {i \in 1..Len(Get(scheduleData, "days").items) :
              Get(scheduleData, "days").items[i].t = "object"}
    ELSE {}

DayIn(i) == Get(scheduleData, "days").items[i]
DayOut(i) == Get(result.returned, "days").items[i]

\* C18 as stated: the output url of a processed day is a pair whose en is the
\* input's English URL when non-empty, else the Chinese one when non-empty,
\* else '', and whose zh is the Chinese one when non-empty, else the English
\* one, else ''; date and title are unchanged.
C18_AsStated ==
    \A i \in ProcessedDays :
        LET url == Get(DayIn(i), "url")
            out == Get(DayOut(i), "url")
            en == UrlText(url, "en")
            zh == UrlText(url, "zh")
        IN  IsUrlPair(url) =>
                /\ IsStringPair(out)
                /\ out.fields.en = Str(IF en # <<>> THEN en ELSE zh)
                /\ out.fields.zh = Str(IF zh # <<>> THEN zh ELSE en)
                /\ Get(DayOut(i), "date") = Get(DayIn(i), "date")
                /\ Get(DayOut(i), "title") = Get(DayIn(i), "title")

\* C18: the output url of a processed day is a pair whose en is the input's
\* English URL trimmed when it has a character other than whitespace, else
\* the Chinese one trimmed when it has one, else '', and whose zh is the
\* same with the languages exchanged; date and title are unchanged.
C18_DayUrl ==
    \A i \in ProcessedDays :
        LET url == Get(DayIn(i), "url")
            out == Get(DayOut(i), "url")
            en == Trim(UrlText(url, "en"))
            zh == Trim(UrlText(url, "zh"))
        IN  IsUrlPair(url) =>
                /\ IsStringPair(out)
                /\ out.fields.en = Str(IF en # <<>> THEN en ELSE zh)
                /\ out.fields.zh = Str(IF zh # <<>> THEN zh ELSE en)
                /\ Get(DayOut(i), "date") = Get(DayIn(i), "date")
                /\ Get(DayOut(i), "title") = Get(DayIn(i), "title")

C18_Witness ==
    \E i \in ProcessedDays :
        LET url == Get(DayIn(i), "url")
        IN  /\ IsUrlPair(url)
            /\ UrlText(url, "en") = <<" ">>
            /\ UrlText(url, "zh") = <<" ", "b", " ">>
            /\ Get(DayOut(i), "url") = Obj([en |-> Str(<<"b">>), zh |-> Str(<<"b">>)])

(***************************************************************************)
(* Claims about the safe accessor and the display accessor, checked under  *)
(* SpecText.                                                               *)
(***************************************************************************)
\* The other language.
Other(lang) == IF lang = "en" THEN "zh" ELSE "en"

\* The call hands back the trimmed text of the requested language, or the
\* trimmed text of a plain string that is not blank.
ReturnsRequested ==
    \/ (IsString(textObj) /\ TrimTruthy(textObj))
    \/ (textObj.t = "object" /\ HasLanguage(textObj, currentLang))

\* The call hands back the text of the other language.
ReturnsOther ==
    /\ textObj.t = "object"
    /\ ~HasLanguage(textObj, currentLang)
    /\ HasLanguage(textObj, Other(currentLang))
    /\ ~TrimRaises(Get(textObj, currentLang))

\* C19: safeGetBilingualText reports every fallback decision: whenever the
\* value returned is not the trimmed text of the requested language (the
\* other language's text, or the fallback because the input was null, an
\* empty or whitespace-only string, or a pair with no text) the callback is
\* invoked exactly once, with the tag language_fallback when the other
\* language was used; when the requested text, or a plain string that is not
\* blank, is returned trimmed, the callback is not invoked.
C19_EveryFallbackReported ==
    called = "safeGetBilingualText" =>
        IF ReturnsRequested
        THEN /\ result.calls = <<>>
             /\ result.returned = (IF IsString(textObj) THEN Str(Trim(textObj.s))
                                   ELSE Str(Trim(Get(textObj, currentLang).s)))
        ELSE /\ Len(result.calls) = 1
             /\ ReturnsOther =>
                   /\ result.calls[1].context = <<Seg("language_fallback", <<>>, -1)>>
                   /\ result.returned = Str(Trim(Get(textObj, Other(currentLang)).s))
             /\ ~ReturnsOther => result.returned = fallback

\* The languages of the input pair that are non-empty.
NonEmptyLanguages == {l \in {"en", "zh"} : Truthy(Get(textObj, l))}

\* C20: getBilingualDisplayText returns the pair {en, zh} when both
\* languages of the input pair are non-empty, the single non-empty string
\* when exactly one is, and the fallback when the input is null or undefined
\* or both languages are empty; for a pair with at most one non-empty
\* language its result is the string getBilingualText returns.
C20_DisplayText ==
    called = "getBilingualDisplayText" =>
        /\ IsNullish(textObj) => result = fallback
        /\ textObj.t = "object" =>
              /\ NonEmptyLanguages = {"en", "zh"} =>
                    result = Obj([en |-> Get(textObj, "en"), zh |-> Get(textObj, "zh")])
              /\ \A l \in {"en", "zh"} : NonEmptyLanguages = {l} => result = Get(textObj, l)
              /\ NonEmptyLanguages = {} => result = fallback
              /\ NonEmptyLanguages # {"en", "zh"} =>
                    \A lang \in {"en", "zh"} : result = getBilingualText(textObj, lang, fallback)

C20_Witness ==
    /\ called = "getBilingualDisplayText"
    /\ textObj.t = "object"
    /\ NonEmptyLanguages = {"en", "zh"}
    /\ Get(textObj, "en") # Get(textObj, "zh")
    /\ result.t = "object"
    /\ result # getBilingualText(textObj, currentLang, fallback)

(***************************************************************************)
(* Claims about referential consistency, checked under SpecData.           *)
(***************************************************************************)
\* The warnings of the result with this text about this value, with or
\* without the context of the business rules.
ReferenceWarnings(text, value, business) ==
    LET Is(w) ==
            /\ w.message[1] = text
            /\ w.message[3] = value
            /\ (w.context = <<Seg("business_rules", <<>>, -1)>>) = business
    IN  Count(result.warnings, Is)

\* C21: in the result of validateScheduleData every key of `sessions` with
\* no matching category id yields exactly two warnings, one of the
\* structural validation with context sessions.<key> and one of the
\* business rules; every distinct category id with no session list or an
\* empty one yields exactly one warning; none of them is an error.
C21_ReferentialWarnings ==
    (called = "validateScheduleData" /\ scheduleData.t = "object"
        /\ Get(scheduleData, "sessions").t = "map") =>
        LET entries == Entries(Get(scheduleData, "sessions"))
            categoryIds == CategoryIdSet(Get(scheduleData, "categories"))
            IsReference(e) ==
                e.message[1] \in {"Session category not found in categories array",
                                  "Category has no sessions"}
        IN  /\ \A i \in 1..Len(entries) :
                  Str(entries[i].k) \notin categoryIds =>
                      /\ ReferenceWarnings("Session category not found in categories array",
                             Str(entries[i].k), FALSE) = 1
                      /\ ReferenceWarnings("Session category not found in categories array",
                             Str(entries[i].k), TRUE) = 1
                      /\ \E w \in 1..Len(result.warnings) :
                             result.warnings[w].context = <<Seg("sessions", entries[i].k, -1)>>
            /\ \A id \in categoryIds :
                  LET bucket == SessionsOf(Get(scheduleData, "sessions"), id)
                  IN  (~Truthy(bucket) \/ HasLengthZero(bucket)) =>
                          ReferenceWarnings("Category has no sessions", id, TRUE) = 1
            /\ Count(result.errors, IsReference) = 0

(***************************************************************************)
(* Claims about the report and the loader, checked under SpecData.         *)
(***************************************************************************)
\* The places of the report where a line with this text stands.
Positions(text) == {i \in 1..Len(result.lines) : result.lines[i].text = text}

At(text) == CHOOSE i \in Positions(text) : TRUE

\* The section with this title is present iff there are diagnostics, comes
\* after line `after`, and lists them one numbered line each, in order.
SectionListed(title, diagnostics, after) ==
    /\ (Positions(title) # {}) = (Len(diagnostics) > 0)
    /\ Cardinality(Positions(title)) <= 1
    /\ Positions(title) # {} =>
          /\ At(title) > after
          /\ At(title) + Len(diagnostics) + 1 <= Len(result.lines)
          /\ \A i \in 1..Len(diagnostics) :
                LET line == result.lines[At(title) + i]
                IN  /\ line.text = "item"
                    /\ line.n = i
                    /\ line.of.field = diagnostics[i].field
                    /\ line.of.message = diagnostics[i].message
                    /\ line.of.context = diagnostics[i].context
          /\ result.lines[At(title) + Len(diagnostics) + 1] = Blank

\* C22: the report generateValidationReport returns has its sections in the
\* order header, summary, statistics, errors, warnings, success line; the 'Errors:'
\* section is present iff the error count is > 0 and lists one numbered line
\* per error, the 'Warnings:' section likewise; the summary counts equal the
\* lengths of the lists; the success line is present iff both counts are 0.
C22_ReportSections ==
    (called = "generateValidationReport" /\ ~result.thrown) =>
        LET validation == validateScheduleData(scheduleData, arg.ajv)
            title == "=== Schedule Data Validation Report ==="
            success == "All validations passed successfully!"
        IN  /\ Positions(title) = {1}
            /\ Cardinality(Positions("Summary:")) = 1
            /\ Cardinality(Positions("Data Statistics:")) = 1
            /\ At("Summary:") < At("Data Statistics:")
            /\ \E e \in Positions("- Errors:") :
                  /\ At("Summary:") < e /\ e < At("Data Statistics:")
                  /\ result.lines[e].n = Len(validation.errors)
            /\ \E w \in Positions("- Warnings:") :
                  /\ At("Summary:") < w /\ w < At("Data Statistics:")
                  /\ result.lines[w].n = Len(validation.warnings)
            /\ SectionListed("Errors:", validation.errors, At("Data Statistics:"))
            /\ SectionListed("Warnings:", validation.warnings, At("Data Statistics:"))
            /\ (Positions("Errors:") # {} /\ Positions("Warnings:") # {}) =>
                   At("Errors:") + Len(validation.errors) < At("Warnings:")
            /\ Cardinality(Positions("item")) = Len(validation.errors) + Len(validation.warnings)
            /\ (Positions(success) # {}) =
                   (Len(validation.errors) = 0 /\ Len(validation.warnings) = 0)
            /\ Positions(success) \subseteq {Len(result.lines)}

\* A report of an invalid document with warnings: both sections, no success
\* line.
C22_Witness ==
    /\ called = "generateValidationReport"
    /\ ~result.thrown
    /\ Positions("Errors:") # {}
    /\ Positions("Warnings:") # {}
    /\ At("Errors:") < At("Warnings:")
    /\ Positions("All validations passed successfully!") = {}
    /\ Cardinality(Positions("item")) > 2

\* C23: loadAndValidateScheduleData has three distinguishable outcomes: a
\* parse failure is raised as an 'Invalid JSON in <path>' error wrapping the
\* parser's message; a parsed document whose validation has at least one
\* error is raised as a 'Schedule data validation failed for <path>' error
\* carrying the formatted error text; otherwise the parsed document is
\* returned, and warnings alone never prevent the return.
C23_LoadOutcomes ==
    called = "loadAndValidateScheduleData" =>
        LET validation == validateScheduleData(scheduleData, arg.ajv)
        IN  /\ arg.file = "invalid" =>
                  /\ result.raised = "Invalid JSON in"
                  /\ result.carries = ParserMessage
            /\ (arg.file = "parsed" /\ Len(validation.errors) > 0) =>
                  /\ result.raised = "Schedule data validation failed for"
                  /\ Len(result.carries) = Len(validation.errors)
                  /\ \A i \in 1..Len(validation.errors) :
                        /\ result.carries[i].severity = "ERROR"
                        /\ result.carries[i].message = validation.errors[i].message
                        /\ result.carries[i].context = validation.errors[i].context
            /\ (arg.file = "parsed" /\ Len(validation.errors) = 0) =>
                  /\ result.raised = ""
                  /\ result.returned = scheduleData

\* A document with warnings and no error is returned.
C23_Witness ==
    /\ called = "loadAndValidateScheduleData"
    /\ arg.file = "parsed"
    /\ Len(validateScheduleData(scheduleData, arg.ajv).warnings) > 0
    /\ result.raised = ""
    /\ result.returned = scheduleData

(***************************************************************************)
(* Claims about context paths and optional text, checked under SpecData.   *)
(***************************************************************************)
\* The collection a diagnostic of an element stems from, by its field.
ParentOf(field) ==
    CASE field \in {"day.date", "day.title", "day.url"} -> "days"
      [] field \in {"category.id", "category.name", "category.room"} -> "categories"
      [] field \in {"session.timeSlot", "session.date", "session.title", "session.content",
                    "session.room", "session.speakers", "speaker.id", "speaker.image",
                    "speaker.tags", "speaker.name", "speaker.roleOrg"} -> "sessions"
      [] OTHER -> ""

IsSpeakerField(field) ==
    field \in {"speaker.id", "speaker.image", "speaker.tags", "speaker.name", "speaker.roleOrg"}

\* The context of a diagnostic is the path of its element: days[i],
\* categories[i], sessions.<key>[i] or sessions.<key>[i].speakers[j].
HasElementPath(diagnostic) ==
    /\ diagnostic.context # NoContext
    /\ diagnostic.context[1].n = ParentOf(diagnostic.field)
    /\ diagnostic.context[1].i >= 0
    /\ IF IsSpeakerField(diagnostic.field)
       THEN /\ Len(diagnostic.context) = 2
            /\ diagnostic.context[2].n = "speakers"
            /\ diagnostic.context[2].i >= 0
       ELSE Len(diagnostic.context) = 1

\* C24: every error and warning in the result of
\* validateBilingualScheduleData that stems from an element of days,
\* categories or a session list, the diagnostics of its text fields and of
\* its speakers included, carries a context path prefixed with the parent's
\* index.
C24_ContextPaths ==
    (called = "validateBilingualScheduleData" /\ ~result.thrown) =>
        \A d \in 1..Len(result.errors \o result.warnings) :
            LET diagnostic == (result.errors \o result.warnings)[d]
            IN  ParentOf(diagnostic.field) # "" => HasElementPath(diagnostic)

\* The session validateBilingualSession was called on.
SessionArgument == SessionsOf(Get(scheduleData, "sessions"), Str(arg.key)).items[arg.index]

\* A room that carries no text: absent, null, an empty or whitespace-only
\* string, or a pair in which both languages are absent or empty.
CarriesNoText(room) ==
    \/ IsNullish(room)
    \/ (IsString(room) /\ ~TrimTruthy(room))
    \/ (room.t = "object" /\ \A l \in {"en", "zh"} :
            ~HasKey(room, l) \/ room.fields[l] = Str(<<>>))

\* The session without its room.
WithoutRoom(session) ==
    Obj([k \in DOMAIN session.fields \ {"room"} |-> session.fields[k]])

\* C25: the optional room of a session never makes the session invalid when
\* it carries no text: a session that validateBilingualSession accepts
\* without the room stays valid, with no error, whether room is absent,
\* null, an empty or whitespace-only string, or a pair with both languages
\* absent or empty.
C25_OptionalRoom ==
    (called = "validateBilingualSession" /\ SessionArgument.t = "object"
        /\ CarriesNoText(Get(SessionArgument, "room"))
        /\ validateBilingualSession(WithoutRoom(SessionArgument), NoContext).isValid) =>
        /\ ~result.thrown
        /\ result.isValid
        /\ result.errors = <<>>

(***************************************************************************)
(* Further claims about the safe processor, checked under SpecSafe.        *)
(***************************************************************************)
\* The structural validation of the input reports nothing.
CleanlyValidated ==
    LET validation == validateBilingualScheduleData(scheduleData)
    IN  ~validation.thrown /\ validation.errors = <<>> /\ validation.warnings = <<>>

\* The value returned is a document built by the processor.
ReturnsDocument ==
    /\ result.returned.t = "object"
    /\ DOMAIN result.returned.fields = {"days", "categories", "sessions"}
    /\ IsArray(result.returned.fields.days)
    /\ IsArray(result.returned.fields.categories)
    /\ result.returned.fields.sessions.t = "map"

\* C26: for every document on which validateBilingualScheduleData reports
\* no error and no warning, safeProcessBilingualSchedule invokes the error
\* callback zero times and returns a document, not the failure fallback.
C26_CleanDocumentSilent ==
    (called = "safeProcessBilingualSchedule" /\ CleanlyValidated) =>
        /\ result.calls = <<>>
        /\ ReturnsDocument

IsTextValue(x) == IsString(x) \/ x.t = "object"

NonBlank(x) == IsString(x) /\ TrimTruthy(x)

\* The texts a value holds: the string itself, or its string languages.
TextsOf(x) ==
    IF IsString(x) THEN {x.s}
    ELSE {Get(x, l).s : l \in {k \in {"en", "zh"} : IsString(Get(x, k))}}

\* The accessor handed back a text of the value, trimmed, and not its fallback.
TakenFromValue(outcome, x) ==
    /\ IsString(outcome.returned)
    /\ outcome.returned.s \in {Trim(s) : s \in TextsOf(x)}
    /\ outcome.returned.s # <<>>
    /\ \A i \in 1..Len(outcome.calls) :
         outcome.calls[i].message[1] \in {"Missing translation, using Chinese",
                                           "Missing translation, using English"}

\* C28: for every text value (a string or a pair, whitespace-only strings
\* included) that validateBilingualText accepts as a required field,
\* getBilingualText returns a non-blank string for both requested languages
\* and safeGetBilingualText returns a text taken from the value rather than
\* its fallback; and isValidBilingualText returns true exactly for the
\* values that validateBilingualText accepts.
C28_AcceptedTextIsReadable ==
    (called = "validateBilingualText" /\ arg.required /\ IsTextValue(textObj)) =>
        /\ result.isValid =>
             \A l \in {"en", "zh"} :
                /\ NonBlank(getBilingualText(textObj, l, fallback))
                /\ TakenFromValue(safeGetBilingualText(textObj, l, fallback), textObj)
        /\ isValidBilingualText(textObj) = result.isValid

(***************************************************************************)
(* The claim that relates the two processors, checked under SpecSafe.      *)
(***************************************************************************)
\* validateBilingualScheduleData accepts the document: it reports no error.
Accepted ==
    /\ ~validateBilingualScheduleData(scheduleData).thrown
    /\ validateBilingualScheduleData(scheduleData).isValid

\* C29: on every document that validateBilingualScheduleData accepts with no
\* error, safeProcessBilingualSchedule and the unguarded
\* processBilingualSchedule return equal documents: the same day url pairs,
\* the same categories and the same sessions with the same coerced speaker
\* name/roleOrg pairs.
C29_ProcessorsAgree ==
    (called = "processBilingualSchedule" /\ Accepted) =>
        /\ ~result.raised
        /\ result.returned = safeProcessBilingualSchedule(scheduleData).returned

(***************************************************************************)
(* The claim about the shape of the processed document, checked under      *)
(* SpecSafe.                                                               *)
(***************************************************************************)
\* The own properties of an entity other than those the processor rebuilds.
Kept(x, rebuilt) ==
    [k \in (DOMAIN Spread(x)) \ rebuilt |-> Spread(x)[k]]

\* As many entities, and at each index the entity of that index.
SameEntities(before, after, rebuilt) ==
    /\ Len(Items(before)) = Len(Items(after))
    /\ \A i \in 1..Len(Items(before)) :
         Kept(Items(before)[i], rebuilt) = Kept(Items(after)[i], rebuilt)

SameSpeakers(before, after) ==
    SameEntities(Get(before, "speakers"), Get(after, "speakers"), {"name", "roleOrg"})

SameSessions(before, after) ==
    /\ SameEntities(before, after, {"speakers"})
    /\ \A i \in 1..Len(Items(before)) : SameSpeakers(Items(before)[i], Items(after)[i])

SameBuckets(before, after) ==
    /\ Len(Entries(before)) = Len(Entries(after))
    /\ \A i \in 1..Len(Entries(before)) :
         /\ Entries(before)[i].k = Entries(after)[i].k
         /\ SameSessions(Entries(before)[i].v, Entries(after)[i].v)

SameShape(before, after) ==
    /\ SameEntities(Get(before, "days"), Get(after, "days"), {"url"})
    /\ SameEntities(Get(before, "categories"), Get(after, "categories"), {})
    /\ SameBuckets(Get(before, "sessions"), Get(after, "sessions"))

\* C30: safeProcessBilingualSchedule preserves the shape of an object-valued
\* document: the output has as many days and categories as the input, in the
\* same order, the same session category keys, and for each key as many
\* sessions, each with as many speakers, in the same order; no entity is
\* dropped, duplicated or reordered, also when some entities fail to process.
C30_ShapePreserved ==
    (called = "safeProcessBilingualSchedule" /\ scheduleData.t = "object") =>
        SameShape(scheduleData, result.returned)

\* A document with a session that failed to process beside one that did not.
C30_Witness ==
    /\ called = "safeProcessBilingualSchedule"
    /\ scheduleData.t = "object"
    /\ result.returned # scheduleData
    /\ \E i \in 1..Len(result.calls) :
         result.calls[i].message[1] = "Error processing session in category"
    /\ \E i \in 1..Len(Entries(Get(scheduleData, "sessions"))) :
         Len(Items(Entries(Get(scheduleData, "sessions"))[i].v)) > 1
    /\ SameShape(scheduleData, result.returned)

=============================================================================
